---- MODULE Spec2Model ----
(***************************************************************************)
(* Model of the flagtags package: ParseFlagsWithOpts walks a struct by     *)
(* reflection and turns every field into a urfave/cli flag, naming the     *)
(* flag and its environment variable from the field's tags or, when a tag  *)
(* is missing, from the field name converted to kebab-case and             *)
(* SCREAMING_SNAKE_CASE.                                                    *)
(*                                                                         *)
(* Go strings are sequences of one-character strings, so that the case     *)
(* conversions and strconv parsers are computed character by character.    *)
(***************************************************************************)
EXTENDS Integers, Sequences, FiniteSets, TLC

VARIABLES input, options, called, result

vars == <<input, options, called, result>>

-----------------------------------------------------------------------------
(* Characters *)

UpperSeq == <<"A","B","C","D","E","F","G","H","I","J","K","L","M",
              "N","O","P","Q","R","S","T","U","V","W","X","Y","Z">>

LowerSeq == <<"a","b","c","d","e","f","g","h","i","j","k","l","m",
              "n","o","p","q","r","s","t","u","v","w","x","y","z">>

DigitSeq == <<"0","1","2","3","4","5","6","7","8","9">>

Range(q) == {q[i] : i \in DOMAIN q}

IsUpper(c) == c \in Range(UpperSeq)

IsLower(c) == c \in Range(LowerSeq)

IsDigit(c) == c \in Range(DigitSeq)

IndexIn(q, c) == CHOOSE i \in DOMAIN q : q[i] = c

Map(f(_), q) == [i \in DOMAIN q |-> f(q[i])]

\* A string is a sequence of characters, each written as a TLA+ string: the
\* character itself or, where a TLA+ string cannot hold it (a code point
\* above U+00FF whose low byte is below 80, and every code point above
\* U+FFFF), the name of its code point, as "U+0178" for the capital Y with
\* diaeresis.
\*
\* unicode.ToLower, unicode.ToUpper and unicode.IsUpper are tables of the
\* package unicode.  They are written out here from the Unicode Character
\* Database, version 14.0.0, which has the letters with case of version
\* 15.0.0, that of Go 1.21 and later.  ToLowerFrom[i] has the lower case
\* ToLowerTo[i] and ToUpperFrom[i] the upper case ToUpperTo[i] (the simple
\* case mappings: one character to one); every other character is its own
\* lower and upper case.  The two are not inverse: the upper case of the
\* micro sign is the capital Mu, whose lower case is the small mu.
ToLowerFrom ==
    <<"A","B","C","D","E","F","G","H","I","J","K","L",
     "M","N","O","P","Q","R","S","T","U","V","W","X",
     "Y","Z","À","Á","Â","Ã","Ä","Å","Æ","Ç","È","É",
     "Ê","Ë","Ì","Í","Î","Ï","Ð","Ñ","Ò","Ó","Ô","Õ",
     "Ö","Ø","Ù","Ú","Û","Ü","Ý","Þ","U+0100","U+0102","U+0104","U+0106",
     "U+0108","U+010A","U+010C","U+010E","U+0110","U+0112","U+0114","U+0116","U+0118","U+011A","U+011C","U+011E",
     "U+0120","U+0122","U+0124","U+0126","U+0128","U+012A","U+012C","U+012E","U+0130","U+0132","U+0134","U+0136",
     "U+0139","U+013B","U+013D","U+013F","U+0141","U+0143","U+0145","U+0147","U+014A","U+014C","U+014E","U+0150",
     "U+0152","U+0154","U+0156","U+0158","U+015A","U+015C","U+015E","U+0160","U+0162","U+0164","U+0166","U+0168",
     "U+016A","U+016C","U+016E","U+0170","U+0172","U+0174","U+0176","U+0178","U+0179","U+017B","U+017D","Ɓ",
     "Ƃ","Ƅ","Ɔ","Ƈ","Ɖ","Ɗ","Ƌ","Ǝ","Ə","Ɛ","Ƒ","Ɠ",
     "Ɣ","Ɩ","Ɨ","Ƙ","Ɯ","Ɲ","Ɵ","Ơ","Ƣ","Ƥ","Ʀ","Ƨ",
     "Ʃ","Ƭ","Ʈ","Ư","Ʊ","Ʋ","Ƴ","Ƶ","Ʒ","Ƹ","Ƽ","Ǆ",
     "ǅ","Ǉ","ǈ","Ǌ","ǋ","Ǎ","Ǐ","Ǒ","Ǔ","Ǖ","Ǘ","Ǚ",
     "Ǜ","Ǟ","Ǡ","Ǣ","Ǥ","Ǧ","Ǩ","Ǫ","Ǭ","Ǯ","Ǳ","ǲ",
     "Ǵ","Ƕ","Ƿ","Ǹ","Ǻ","Ǽ","Ǿ","U+0200","U+0202","U+0204","U+0206","U+0208",
     "U+020A","U+020C","U+020E","U+0210","U+0212","U+0214","U+0216","U+0218","U+021A","U+021C","U+021E","U+0220",
     "U+0222","U+0224","U+0226","U+0228","U+022A","U+022C","U+022E","U+0230","U+0232","U+023A","U+023B","U+023D",
     "U+023E","U+0241","U+0243","U+0244","U+0245","U+0246","U+0248","U+024A","U+024C","U+024E","U+0370","U+0372",
     "U+0376","U+037F","Ά","Έ","Ή","Ί","Ό","Ύ","Ώ","Α","Β","Γ",
     "Δ","Ε","Ζ","Η","Θ","Ι","Κ","Λ","Μ","Ν","Ξ","Ο",
     "Π","Ρ","Σ","Τ","Υ","Φ","Χ","Ψ","Ω","Ϊ","Ϋ","Ϗ",
     "Ϙ","Ϛ","Ϝ","Ϟ","Ϡ","Ϣ","Ϥ","Ϧ","Ϩ","Ϫ","Ϭ","Ϯ",
     "ϴ","Ϸ","Ϲ","Ϻ","Ͻ","Ͼ","Ͽ","U+0400","U+0401","U+0402","U+0403","U+0404",
     "U+0405","U+0406","U+0407","U+0408","U+0409","U+040A","U+040B","U+040C","U+040D","U+040E","U+040F","U+0410",
     "U+0411","U+0412","U+0413","U+0414","U+0415","U+0416","U+0417","U+0418","U+0419","U+041A","U+041B","U+041C",
     "U+041D","U+041E","U+041F","U+0420","U+0421","U+0422","U+0423","U+0424","U+0425","U+0426","U+0427","U+0428",
     "U+0429","U+042A","U+042B","U+042C","U+042D","U+042E","U+042F","U+0460","U+0462","U+0464","U+0466","U+0468",
     "U+046A","U+046C","U+046E","U+0470","U+0472","U+0474","U+0476","U+0478","U+047A","U+047C","U+047E","Ҁ",
     "Ҋ","Ҍ","Ҏ","Ґ","Ғ","Ҕ","Җ","Ҙ","Қ","Ҝ","Ҟ","Ҡ",
     "Ң","Ҥ","Ҧ","Ҩ","Ҫ","Ҭ","Ү","Ұ","Ҳ","Ҵ","Ҷ","Ҹ",
     "Һ","Ҽ","Ҿ","Ӏ","Ӂ","Ӄ","Ӆ","Ӈ","Ӊ","Ӌ","Ӎ","Ӑ",
     "Ӓ","Ӕ","Ӗ","Ә","Ӛ","Ӝ","Ӟ","Ӡ","Ӣ","Ӥ","Ӧ","Ө",
     "Ӫ","Ӭ","Ӯ","Ӱ","Ӳ","Ӵ","Ӷ","Ӹ","Ӻ","Ӽ","Ӿ","U+0500",
     "U+0502","U+0504","U+0506","U+0508","U+050A","U+050C","U+050E","U+0510","U+0512","U+0514","U+0516","U+0518",
     "U+051A","U+051C","U+051E","U+0520","U+0522","U+0524","U+0526","U+0528","U+052A","U+052C","U+052E","U+0531",
     "U+0532","U+0533","U+0534","U+0535","U+0536","U+0537","U+0538","U+0539","U+053A","U+053B","U+053C","U+053D",
     "U+053E","U+053F","U+0540","U+0541","U+0542","U+0543","U+0544","U+0545","U+0546","U+0547","U+0548","U+0549",
     "U+054A","U+054B","U+054C","U+054D","U+054E","U+054F","U+0550","U+0551","U+0552","U+0553","U+0554","U+0555",
     "U+0556","Ⴀ","Ⴁ","Ⴂ","Ⴃ","Ⴄ","Ⴅ","Ⴆ","Ⴇ","Ⴈ","Ⴉ","Ⴊ",
     "Ⴋ","Ⴌ","Ⴍ","Ⴎ","Ⴏ","Ⴐ","Ⴑ","Ⴒ","Ⴓ","Ⴔ","Ⴕ","Ⴖ",
     "Ⴗ","Ⴘ","Ⴙ","Ⴚ","Ⴛ","Ⴜ","Ⴝ","Ⴞ","Ⴟ","Ⴠ","Ⴡ","Ⴢ",
     "Ⴣ","Ⴤ","Ⴥ","Ⴧ","Ⴭ","Ꭰ","Ꭱ","Ꭲ","Ꭳ","Ꭴ","Ꭵ","Ꭶ",
     "Ꭷ","Ꭸ","Ꭹ","Ꭺ","Ꭻ","Ꭼ","Ꭽ","Ꭾ","Ꭿ","Ꮀ","Ꮁ","Ꮂ",
     "Ꮃ","Ꮄ","Ꮅ","Ꮆ","Ꮇ","Ꮈ","Ꮉ","Ꮊ","Ꮋ","Ꮌ","Ꮍ","Ꮎ",
     "Ꮏ","Ꮐ","Ꮑ","Ꮒ","Ꮓ","Ꮔ","Ꮕ","Ꮖ","Ꮗ","Ꮘ","Ꮙ","Ꮚ",
     "Ꮛ","Ꮜ","Ꮝ","Ꮞ","Ꮟ","Ꮠ","Ꮡ","Ꮢ","Ꮣ","Ꮤ","Ꮥ","Ꮦ",
     "Ꮧ","Ꮨ","Ꮩ","Ꮪ","Ꮫ","Ꮬ","Ꮭ","Ꮮ","Ꮯ","Ꮰ","Ꮱ","Ꮲ",
     "Ꮳ","Ꮴ","Ꮵ","Ꮶ","Ꮷ","Ꮸ","Ꮹ","Ꮺ","Ꮻ","Ꮼ","Ꮽ","Ꮾ",
     "Ꮿ","Ᏸ","Ᏹ","Ᏺ","Ᏻ","Ᏼ","Ᏽ","Ა","Ბ","Გ","Დ","Ე",
     "Ვ","Ზ","Თ","Ი","Კ","Ლ","Მ","Ნ","Ო","Პ","Ჟ","Რ",
     "Ს","Ტ","Უ","Ფ","Ქ","Ღ","Ყ","Შ","Ჩ","Ც","Ძ","Წ",
     "Ჭ","Ხ","Ჯ","Ჰ","Ჱ","Ჲ","Ჳ","Ჴ","Ჵ","Ჶ","Ჷ","Ჸ",
     "Ჹ","Ჺ","Ჽ","Ჾ","Ჿ","U+1E00","U+1E02","U+1E04","U+1E06","U+1E08","U+1E0A","U+1E0C",
     "U+1E0E","U+1E10","U+1E12","U+1E14","U+1E16","U+1E18","U+1E1A","U+1E1C","U+1E1E","U+1E20","U+1E22","U+1E24",
     "U+1E26","U+1E28","U+1E2A","U+1E2C","U+1E2E","U+1E30","U+1E32","U+1E34","U+1E36","U+1E38","U+1E3A","U+1E3C",
     "U+1E3E","U+1E40","U+1E42","U+1E44","U+1E46","U+1E48","U+1E4A","U+1E4C","U+1E4E","U+1E50","U+1E52","U+1E54",
     "U+1E56","U+1E58","U+1E5A","U+1E5C","U+1E5E","U+1E60","U+1E62","U+1E64","U+1E66","U+1E68","U+1E6A","U+1E6C",
     "U+1E6E","U+1E70","U+1E72","U+1E74","U+1E76","U+1E78","U+1E7A","U+1E7C","U+1E7E","Ẁ","Ẃ","Ẅ",
     "Ẇ","Ẉ","Ẋ","Ẍ","Ẏ","Ẑ","Ẓ","Ẕ","ẞ","Ạ","Ả","Ấ",
     "Ầ","Ẩ","Ẫ","Ậ","Ắ","Ằ","Ẳ","Ẵ","Ặ","Ẹ","Ẻ","Ẽ",
     "Ế","Ề","Ể","Ễ","Ệ","Ỉ","Ị","Ọ","Ỏ","Ố","Ồ","Ổ",
     "Ỗ","Ộ","Ớ","Ờ","Ở","Ỡ","Ợ","Ụ","Ủ","Ứ","Ừ","Ử",
     "Ữ","Ự","Ỳ","Ỵ","Ỷ","Ỹ","Ỻ","Ỽ","Ỿ","U+1F08","U+1F09","U+1F0A",
     "U+1F0B","U+1F0C","U+1F0D","U+1F0E","U+1F0F","U+1F18","U+1F19","U+1F1A","U+1F1B","U+1F1C","U+1F1D","U+1F28",
     "U+1F29","U+1F2A","U+1F2B","U+1F2C","U+1F2D","U+1F2E","U+1F2F","U+1F38","U+1F39","U+1F3A","U+1F3B","U+1F3C",
     "U+1F3D","U+1F3E","U+1F3F","U+1F48","U+1F49","U+1F4A","U+1F4B","U+1F4C","U+1F4D","U+1F59","U+1F5B","U+1F5D",
     "U+1F5F","U+1F68","U+1F69","U+1F6A","U+1F6B","U+1F6C","U+1F6D","U+1F6E","U+1F6F","ᾈ","ᾉ","ᾊ",
     "ᾋ","ᾌ","ᾍ","ᾎ","ᾏ","ᾘ","ᾙ","ᾚ","ᾛ","ᾜ","ᾝ","ᾞ",
     "ᾟ","ᾨ","ᾩ","ᾪ","ᾫ","ᾬ","ᾭ","ᾮ","ᾯ","Ᾰ","Ᾱ","Ὰ",
     "Ά","ᾼ","Ὲ","Έ","Ὴ","Ή","ῌ","Ῐ","Ῑ","Ὶ","Ί","Ῠ",
     "Ῡ","Ὺ","Ύ","Ῥ","Ὸ","Ό","Ὼ","Ώ","ῼ","U+2126","U+212A","U+212B",
     "U+2132","U+2160","U+2161","U+2162","U+2163","U+2164","U+2165","U+2166","U+2167","U+2168","U+2169","U+216A",
     "U+216B","U+216C","U+216D","U+216E","U+216F","Ↄ","Ⓐ","Ⓑ","Ⓒ","Ⓓ","Ⓔ","Ⓕ",
     "Ⓖ","Ⓗ","Ⓘ","Ⓙ","Ⓚ","Ⓛ","Ⓜ","Ⓝ","Ⓞ","Ⓟ","Ⓠ","Ⓡ",
     "Ⓢ","Ⓣ","Ⓤ","Ⓥ","Ⓦ","Ⓧ","Ⓨ","Ⓩ","U+2C00","U+2C01","U+2C02","U+2C03",
     "U+2C04","U+2C05","U+2C06","U+2C07","U+2C08","U+2C09","U+2C0A","U+2C0B","U+2C0C","U+2C0D","U+2C0E","U+2C0F",
     "U+2C10","U+2C11","U+2C12","U+2C13","U+2C14","U+2C15","U+2C16","U+2C17","U+2C18","U+2C19","U+2C1A","U+2C1B",
     "U+2C1C","U+2C1D","U+2C1E","U+2C1F","U+2C20","U+2C21","U+2C22","U+2C23","U+2C24","U+2C25","U+2C26","U+2C27",
     "U+2C28","U+2C29","U+2C2A","U+2C2B","U+2C2C","U+2C2D","U+2C2E","U+2C2F","U+2C60","U+2C62","U+2C63","U+2C64",
     "U+2C67","U+2C69","U+2C6B","U+2C6D","U+2C6E","U+2C6F","U+2C70","U+2C72","U+2C75","U+2C7E","U+2C7F","Ⲁ",
     "Ⲃ","Ⲅ","Ⲇ","Ⲉ","Ⲋ","Ⲍ","Ⲏ","Ⲑ","Ⲓ","Ⲕ","Ⲗ","Ⲙ",
     "Ⲛ","Ⲝ","Ⲟ","Ⲡ","Ⲣ","Ⲥ","Ⲧ","Ⲩ","Ⲫ","Ⲭ","Ⲯ","Ⲱ",
     "Ⲳ","Ⲵ","Ⲷ","Ⲹ","Ⲻ","Ⲽ","Ⲿ","Ⳁ","Ⳃ","Ⳅ","Ⳇ","Ⳉ",
     "Ⳋ","Ⳍ","Ⳏ","Ⳑ","Ⳓ","Ⳕ","Ⳗ","Ⳙ","Ⳛ","Ⳝ","Ⳟ","Ⳡ",
     "Ⳣ","Ⳬ","Ⳮ","Ⳳ","U+A640","U+A642","U+A644","U+A646","U+A648","U+A64A","U+A64C","U+A64E",
     "U+A650","U+A652","U+A654","U+A656","U+A658","U+A65A","U+A65C","U+A65E","U+A660","U+A662","U+A664","U+A666",
     "U+A668","U+A66A","U+A66C","Ꚁ","Ꚃ","Ꚅ","Ꚇ","Ꚉ","Ꚋ","Ꚍ","Ꚏ","Ꚑ",
     "Ꚓ","Ꚕ","Ꚗ","Ꚙ","Ꚛ","U+A722","U+A724","U+A726","U+A728","U+A72A","U+A72C","U+A72E",
     "U+A732","U+A734","U+A736","U+A738","U+A73A","U+A73C","U+A73E","U+A740","U+A742","U+A744","U+A746","U+A748",
     "U+A74A","U+A74C","U+A74E","U+A750","U+A752","U+A754","U+A756","U+A758","U+A75A","U+A75C","U+A75E","U+A760",
     "U+A762","U+A764","U+A766","U+A768","U+A76A","U+A76C","U+A76E","U+A779","U+A77B","U+A77D","U+A77E","Ꞁ",
     "Ꞃ","Ꞅ","Ꞇ","Ꞌ","Ɥ","Ꞑ","Ꞓ","Ꞗ","Ꞙ","Ꞛ","Ꞝ","Ꞟ",
     "Ꞡ","Ꞣ","Ꞥ","Ꞧ","Ꞩ","Ɦ","Ɜ","Ɡ","Ɬ","Ɪ","Ʞ","Ʇ",
     "Ʝ","Ꭓ","Ꞵ","Ꞷ","Ꞹ","Ꞻ","Ꞽ","Ꞿ","Ꟁ","Ꟃ","Ꞔ","Ʂ",
     "Ᶎ","Ꟈ","Ꟊ","Ꟑ","Ꟗ","Ꟙ","Ꟶ","U+FF21","U+FF22","U+FF23","U+FF24","U+FF25",
     "U+FF26","U+FF27","U+FF28","U+FF29","U+FF2A","U+FF2B","U+FF2C","U+FF2D","U+FF2E","U+FF2F","U+FF30","U+FF31",
     "U+FF32","U+FF33","U+FF34","U+FF35","U+FF36","U+FF37","U+FF38","U+FF39","U+FF3A","U+10400","U+10401","U+10402",
     "U+10403","U+10404","U+10405","U+10406","U+10407","U+10408","U+10409","U+1040A","U+1040B","U+1040C","U+1040D","U+1040E",
     "U+1040F","U+10410","U+10411","U+10412","U+10413","U+10414","U+10415","U+10416","U+10417","U+10418","U+10419","U+1041A",
     "U+1041B","U+1041C","U+1041D","U+1041E","U+1041F","U+10420","U+10421","U+10422","U+10423","U+10424","U+10425","U+10426",
     "U+10427","U+104B0","U+104B1","U+104B2","U+104B3","U+104B4","U+104B5","U+104B6","U+104B7","U+104B8","U+104B9","U+104BA",
     "U+104BB","U+104BC","U+104BD","U+104BE","U+104BF","U+104C0","U+104C1","U+104C2","U+104C3","U+104C4","U+104C5","U+104C6",
     "U+104C7","U+104C8","U+104C9","U+104CA","U+104CB","U+104CC","U+104CD","U+104CE","U+104CF","U+104D0","U+104D1","U+104D2",
     "U+104D3","U+10570","U+10571","U+10572","U+10573","U+10574","U+10575","U+10576","U+10577","U+10578","U+10579","U+1057A",
     "U+1057C","U+1057D","U+1057E","U+1057F","U+10580","U+10581","U+10582","U+10583","U+10584","U+10585","U+10586","U+10587",
     "U+10588","U+10589","U+1058A","U+1058C","U+1058D","U+1058E","U+1058F","U+10590","U+10591","U+10592","U+10594","U+10595",
     "U+10C80","U+10C81","U+10C82","U+10C83","U+10C84","U+10C85","U+10C86","U+10C87","U+10C88","U+10C89","U+10C8A","U+10C8B",
     "U+10C8C","U+10C8D","U+10C8E","U+10C8F","U+10C90","U+10C91","U+10C92","U+10C93","U+10C94","U+10C95","U+10C96","U+10C97",
     "U+10C98","U+10C99","U+10C9A","U+10C9B","U+10C9C","U+10C9D","U+10C9E","U+10C9F","U+10CA0","U+10CA1","U+10CA2","U+10CA3",
     "U+10CA4","U+10CA5","U+10CA6","U+10CA7","U+10CA8","U+10CA9","U+10CAA","U+10CAB","U+10CAC","U+10CAD","U+10CAE","U+10CAF",
     "U+10CB0","U+10CB1","U+10CB2","U+118A0","U+118A1","U+118A2","U+118A3","U+118A4","U+118A5","U+118A6","U+118A7","U+118A8",
     "U+118A9","U+118AA","U+118AB","U+118AC","U+118AD","U+118AE","U+118AF","U+118B0","U+118B1","U+118B2","U+118B3","U+118B4",
     "U+118B5","U+118B6","U+118B7","U+118B8","U+118B9","U+118BA","U+118BB","U+118BC","U+118BD","U+118BE","U+118BF","U+16E40",
     "U+16E41","U+16E42","U+16E43","U+16E44","U+16E45","U+16E46","U+16E47","U+16E48","U+16E49","U+16E4A","U+16E4B","U+16E4C",
     "U+16E4D","U+16E4E","U+16E4F","U+16E50","U+16E51","U+16E52","U+16E53","U+16E54","U+16E55","U+16E56","U+16E57","U+16E58",
     "U+16E59","U+16E5A","U+16E5B","U+16E5C","U+16E5D","U+16E5E","U+16E5F","U+1E900","U+1E901","U+1E902","U+1E903","U+1E904",
     "U+1E905","U+1E906","U+1E907","U+1E908","U+1E909","U+1E90A","U+1E90B","U+1E90C","U+1E90D","U+1E90E","U+1E90F","U+1E910",
     "U+1E911","U+1E912","U+1E913","U+1E914","U+1E915","U+1E916","U+1E917","U+1E918","U+1E919","U+1E91A","U+1E91B","U+1E91C",
     "U+1E91D","U+1E91E","U+1E91F","U+1E920","U+1E921">>

ToLowerTo ==
    <<"a","b","c","d","e","f","g","h","i","j","k","l",
     "m","n","o","p","q","r","s","t","u","v","w","x",
     "y","z","à","á","â","ã","ä","å","æ","ç","è","é",
     "ê","ë","ì","í","î","ï","ð","ñ","ò","ó","ô","õ",
     "ö","ø","ù","ú","û","ü","ý","þ","U+0101","U+0103","U+0105","U+0107",
     "U+0109","U+010B","U+010D","U+010F","U+0111","U+0113","U+0115","U+0117","U+0119","U+011B","U+011D","U+011F",
     "U+0121","U+0123","U+0125","U+0127","U+0129","U+012B","U+012D","U+012F","i","U+0133","U+0135","U+0137",
     "U+013A","U+013C","U+013E","U+0140","U+0142","U+0144","U+0146","U+0148","U+014B","U+014D","U+014F","U+0151",
     "U+0153","U+0155","U+0157","U+0159","U+015B","U+015D","U+015F","U+0161","U+0163","U+0165","U+0167","U+0169",
     "U+016B","U+016D","U+016F","U+0171","U+0173","U+0175","U+0177","ÿ","U+017A","U+017C","U+017E","U+0253",
     "ƃ","ƅ","U+0254","ƈ","U+0256","U+0257","ƌ","ǝ","U+0259","U+025B","ƒ","U+0260",
     "U+0263","U+0269","U+0268","ƙ","U+026F","U+0272","U+0275","ơ","ƣ","ƥ","ʀ","ƨ",
     "ʃ","ƭ","ʈ","ư","ʊ","ʋ","ƴ","ƶ","ʒ","ƹ","ƽ","ǆ",
     "ǆ","ǉ","ǉ","ǌ","ǌ","ǎ","ǐ","ǒ","ǔ","ǖ","ǘ","ǚ",
     "ǜ","ǟ","ǡ","ǣ","ǥ","ǧ","ǩ","ǫ","ǭ","ǯ","ǳ","ǳ",
     "ǵ","ƕ","ƿ","ǹ","ǻ","ǽ","ǿ","U+0201","U+0203","U+0205","U+0207","U+0209",
     "U+020B","U+020D","U+020F","U+0211","U+0213","U+0215","U+0217","U+0219","U+021B","U+021D","U+021F","ƞ",
     "U+0223","U+0225","U+0227","U+0229","U+022B","U+022D","U+022F","U+0231","U+0233","U+2C65","U+023C","ƚ",
     "U+2C66","U+0242","ƀ","ʉ","ʌ","U+0247","U+0249","U+024B","U+024D","U+024F","U+0371","U+0373",
     "U+0377","ϳ","ά","έ","ή","ί","ό","ύ","ώ","α","β","γ",
     "δ","ε","ζ","η","θ","ι","κ","λ","μ","ν","ξ","ο",
     "π","ρ","σ","τ","υ","φ","χ","ψ","ω","ϊ","ϋ","ϗ",
     "ϙ","ϛ","ϝ","ϟ","ϡ","ϣ","ϥ","ϧ","ϩ","ϫ","ϭ","ϯ",
     "θ","ϸ","ϲ","ϻ","U+037B","U+037C","U+037D","U+0450","U+0451","U+0452","U+0453","U+0454",
     "U+0455","U+0456","U+0457","U+0458","U+0459","U+045A","U+045B","U+045C","U+045D","U+045E","U+045F","U+0430",
     "U+0431","U+0432","U+0433","U+0434","U+0435","U+0436","U+0437","U+0438","U+0439","U+043A","U+043B","U+043C",
     "U+043D","U+043E","U+043F","U+0440","U+0441","U+0442","U+0443","U+0444","U+0445","U+0446","U+0447","U+0448",
     "U+0449","U+044A","U+044B","U+044C","U+044D","U+044E","U+044F","U+0461","U+0463","U+0465","U+0467","U+0469",
     "U+046B","U+046D","U+046F","U+0471","U+0473","U+0475","U+0477","U+0479","U+047B","U+047D","U+047F","ҁ",
     "ҋ","ҍ","ҏ","ґ","ғ","ҕ","җ","ҙ","қ","ҝ","ҟ","ҡ",
     "ң","ҥ","ҧ","ҩ","ҫ","ҭ","ү","ұ","ҳ","ҵ","ҷ","ҹ",
     "һ","ҽ","ҿ","ӏ","ӂ","ӄ","ӆ","ӈ","ӊ","ӌ","ӎ","ӑ",
     "ӓ","ӕ","ӗ","ә","ӛ","ӝ","ӟ","ӡ","ӣ","ӥ","ӧ","ө",
     "ӫ","ӭ","ӯ","ӱ","ӳ","ӵ","ӷ","ӹ","ӻ","ӽ","ӿ","U+0501",
     "U+0503","U+0505","U+0507","U+0509","U+050B","U+050D","U+050F","U+0511","U+0513","U+0515","U+0517","U+0519",
     "U+051B","U+051D","U+051F","U+0521","U+0523","U+0525","U+0527","U+0529","U+052B","U+052D","U+052F","U+0561",
     "U+0562","U+0563","U+0564","U+0565","U+0566","U+0567","U+0568","U+0569","U+056A","U+056B","U+056C","U+056D",
     "U+056E","U+056F","U+0570","U+0571","U+0572","U+0573","U+0574","U+0575","U+0576","U+0577","U+0578","U+0579",
     "U+057A","U+057B","U+057C","U+057D","U+057E","U+057F","ր","ց","ւ","փ","ք","օ",
     "ֆ","U+2D00","U+2D01","U+2D02","U+2D03","U+2D04","U+2D05","U+2D06","U+2D07","U+2D08","U+2D09","U+2D0A",
     "U+2D0B","U+2D0C","U+2D0D","U+2D0E","U+2D0F","U+2D10","U+2D11","U+2D12","U+2D13","U+2D14","U+2D15","U+2D16",
     "U+2D17","U+2D18","U+2D19","U+2D1A","U+2D1B","U+2D1C","U+2D1D","U+2D1E","U+2D1F","U+2D20","U+2D21","U+2D22",
     "U+2D23","U+2D24","U+2D25","U+2D27","U+2D2D","U+AB70","U+AB71","U+AB72","U+AB73","U+AB74","U+AB75","U+AB76",
     "U+AB77","U+AB78","U+AB79","U+AB7A","U+AB7B","U+AB7C","U+AB7D","U+AB7E","U+AB7F","ꮀ","ꮁ","ꮂ",
     "ꮃ","ꮄ","ꮅ","ꮆ","ꮇ","ꮈ","ꮉ","ꮊ","ꮋ","ꮌ","ꮍ","ꮎ",
     "ꮏ","ꮐ","ꮑ","ꮒ","ꮓ","ꮔ","ꮕ","ꮖ","ꮗ","ꮘ","ꮙ","ꮚ",
     "ꮛ","ꮜ","ꮝ","ꮞ","ꮟ","ꮠ","ꮡ","ꮢ","ꮣ","ꮤ","ꮥ","ꮦ",
     "ꮧ","ꮨ","ꮩ","ꮪ","ꮫ","ꮬ","ꮭ","ꮮ","ꮯ","ꮰ","ꮱ","ꮲ",
     "ꮳ","ꮴ","ꮵ","ꮶ","ꮷ","ꮸ","ꮹ","ꮺ","ꮻ","ꮼ","ꮽ","ꮾ",
     "ꮿ","ᏸ","ᏹ","ᏺ","ᏻ","ᏼ","ᏽ","ა","ბ","გ","დ","ე",
     "ვ","ზ","თ","ი","კ","ლ","მ","ნ","ო","პ","ჟ","რ",
     "ს","ტ","უ","ფ","ქ","ღ","ყ","შ","ჩ","ც","ძ","წ",
     "ჭ","ხ","ჯ","ჰ","ჱ","ჲ","ჳ","ჴ","ჵ","ჶ","ჷ","ჸ",
     "ჹ","ჺ","ჽ","ჾ","ჿ","U+1E01","U+1E03","U+1E05","U+1E07","U+1E09","U+1E0B","U+1E0D",
     "U+1E0F","U+1E11","U+1E13","U+1E15","U+1E17","U+1E19","U+1E1B","U+1E1D","U+1E1F","U+1E21","U+1E23","U+1E25",
     "U+1E27","U+1E29","U+1E2B","U+1E2D","U+1E2F","U+1E31","U+1E33","U+1E35","U+1E37","U+1E39","U+1E3B","U+1E3D",
     "U+1E3F","U+1E41","U+1E43","U+1E45","U+1E47","U+1E49","U+1E4B","U+1E4D","U+1E4F","U+1E51","U+1E53","U+1E55",
     "U+1E57","U+1E59","U+1E5B","U+1E5D","U+1E5F","U+1E61","U+1E63","U+1E65","U+1E67","U+1E69","U+1E6B","U+1E6D",
     "U+1E6F","U+1E71","U+1E73","U+1E75","U+1E77","U+1E79","U+1E7B","U+1E7D","U+1E7F","ẁ","ẃ","ẅ",
     "ẇ","ẉ","ẋ","ẍ","ẏ","ẑ","ẓ","ẕ","ß","ạ","ả","ấ",
     "ầ","ẩ","ẫ","ậ","ắ","ằ","ẳ","ẵ","ặ","ẹ","ẻ","ẽ",
     "ế","ề","ể","ễ","ệ","ỉ","ị","ọ","ỏ","ố","ồ","ổ",
     "ỗ","ộ","ớ","ờ","ở","ỡ","ợ","ụ","ủ","ứ","ừ","ử",
     "ữ","ự","ỳ","ỵ","ỷ","ỹ","ỻ","ỽ","ỿ","U+1F00","U+1F01","U+1F02",
     "U+1F03","U+1F04","U+1F05","U+1F06","U+1F07","U+1F10","U+1F11","U+1F12","U+1F13","U+1F14","U+1F15","U+1F20",
     "U+1F21","U+1F22","U+1F23","U+1F24","U+1F25","U+1F26","U+1F27","U+1F30","U+1F31","U+1F32","U+1F33","U+1F34",
     "U+1F35","U+1F36","U+1F37","U+1F40","U+1F41","U+1F42","U+1F43","U+1F44","U+1F45","U+1F51","U+1F53","U+1F55",
     "U+1F57","U+1F60","U+1F61","U+1F62","U+1F63","U+1F64","U+1F65","U+1F66","U+1F67","ᾀ","ᾁ","ᾂ",
     "ᾃ","ᾄ","ᾅ","ᾆ","ᾇ","ᾐ","ᾑ","ᾒ","ᾓ","ᾔ","ᾕ","ᾖ",
     "ᾗ","ᾠ","ᾡ","ᾢ","ᾣ","ᾤ","ᾥ","ᾦ","ᾧ","ᾰ","ᾱ","U+1F70",
     "U+1F71","ᾳ","U+1F72","U+1F73","U+1F74","U+1F75","ῃ","ῐ","ῑ","U+1F76","U+1F77","ῠ",
     "ῡ","U+1F7A","U+1F7B","ῥ","U+1F78","U+1F79","U+1F7C","U+1F7D","ῳ","ω","k","å",
     "U+214E","U+2170","U+2171","U+2172","U+2173","U+2174","U+2175","U+2176","U+2177","U+2178","U+2179","U+217A",
     "U+217B","U+217C","U+217D","U+217E","U+217F","ↄ","ⓐ","ⓑ","ⓒ","ⓓ","ⓔ","ⓕ",
     "ⓖ","ⓗ","ⓘ","ⓙ","ⓚ","ⓛ","ⓜ","ⓝ","ⓞ","ⓟ","ⓠ","ⓡ",
     "ⓢ","ⓣ","ⓤ","ⓥ","ⓦ","ⓧ","ⓨ","ⓩ","U+2C30","U+2C31","U+2C32","U+2C33",
     "U+2C34","U+2C35","U+2C36","U+2C37","U+2C38","U+2C39","U+2C3A","U+2C3B","U+2C3C","U+2C3D","U+2C3E","U+2C3F",
     "U+2C40","U+2C41","U+2C42","U+2C43","U+2C44","U+2C45","U+2C46","U+2C47","U+2C48","U+2C49","U+2C4A","U+2C4B",
     "U+2C4C","U+2C4D","U+2C4E","U+2C4F","U+2C50","U+2C51","U+2C52","U+2C53","U+2C54","U+2C55","U+2C56","U+2C57",
     "U+2C58","U+2C59","U+2C5A","U+2C5B","U+2C5C","U+2C5D","U+2C5E","U+2C5F","U+2C61","U+026B","U+1D7D","U+027D",
     "U+2C68","U+2C6A","U+2C6C","U+0251","U+0271","U+0250","U+0252","U+2C73","U+2C76","U+023F","U+0240","ⲁ",
     "ⲃ","ⲅ","ⲇ","ⲉ","ⲋ","ⲍ","ⲏ","ⲑ","ⲓ","ⲕ","ⲗ","ⲙ",
     "ⲛ","ⲝ","ⲟ","ⲡ","ⲣ","ⲥ","ⲧ","ⲩ","ⲫ","ⲭ","ⲯ","ⲱ",
     "ⲳ","ⲵ","ⲷ","ⲹ","ⲻ","ⲽ","ⲿ","ⳁ","ⳃ","ⳅ","ⳇ","ⳉ",
     "ⳋ","ⳍ","ⳏ","ⳑ","ⳓ","ⳕ","ⳗ","ⳙ","ⳛ","ⳝ","ⳟ","ⳡ",
     "ⳣ","ⳬ","ⳮ","ⳳ","U+A641","U+A643","U+A645","U+A647","U+A649","U+A64B","U+A64D","U+A64F",
     "U+A651","U+A653","U+A655","U+A657","U+A659","U+A65B","U+A65D","U+A65F","U+A661","U+A663","U+A665","U+A667",
     "U+A669","U+A66B","U+A66D","ꚁ","ꚃ","ꚅ","ꚇ","ꚉ","ꚋ","ꚍ","ꚏ","ꚑ",
     "ꚓ","ꚕ","ꚗ","ꚙ","ꚛ","U+A723","U+A725","U+A727","U+A729","U+A72B","U+A72D","U+A72F",
     "U+A733","U+A735","U+A737","U+A739","U+A73B","U+A73D","U+A73F","U+A741","U+A743","U+A745","U+A747","U+A749",
     "U+A74B","U+A74D","U+A74F","U+A751","U+A753","U+A755","U+A757","U+A759","U+A75B","U+A75D","U+A75F","U+A761",
     "U+A763","U+A765","U+A767","U+A769","U+A76B","U+A76D","U+A76F","U+A77A","U+A77C","U+1D79","U+A77F","ꞁ",
     "ꞃ","ꞅ","ꞇ","ꞌ","U+0265","ꞑ","ꞓ","ꞗ","ꞙ","ꞛ","ꞝ","ꞟ",
     "ꞡ","ꞣ","ꞥ","ꞧ","ꞩ","U+0266","U+025C","U+0261","U+026C","U+026A","ʞ","ʇ",
     "ʝ","U+AB53","ꞵ","ꞷ","ꞹ","ꞻ","ꞽ","ꞿ","ꟁ","ꟃ","ꞔ","ʂ",
     "ᶎ","ꟈ","ꟊ","ꟑ","ꟗ","ꟙ","ꟶ","U+FF41","U+FF42","U+FF43","U+FF44","U+FF45",
     "U+FF46","U+FF47","U+FF48","U+FF49","U+FF4A","U+FF4B","U+FF4C","U+FF4D","U+FF4E","U+FF4F","U+FF50","U+FF51",
     "U+FF52","U+FF53","U+FF54","U+FF55","U+FF56","U+FF57","U+FF58","U+FF59","U+FF5A","U+10428","U+10429","U+1042A",
     "U+1042B","U+1042C","U+1042D","U+1042E","U+1042F","U+10430","U+10431","U+10432","U+10433","U+10434","U+10435","U+10436",
     "U+10437","U+10438","U+10439","U+1043A","U+1043B","U+1043C","U+1043D","U+1043E","U+1043F","U+10440","U+10441","U+10442",
     "U+10443","U+10444","U+10445","U+10446","U+10447","U+10448","U+10449","U+1044A","U+1044B","U+1044C","U+1044D","U+1044E",
     "U+1044F","U+104D8","U+104D9","U+104DA","U+104DB","U+104DC","U+104DD","U+104DE","U+104DF","U+104E0","U+104E1","U+104E2",
     "U+104E3","U+104E4","U+104E5","U+104E6","U+104E7","U+104E8","U+104E9","U+104EA","U+104EB","U+104EC","U+104ED","U+104EE",
     "U+104EF","U+104F0","U+104F1","U+104F2","U+104F3","U+104F4","U+104F5","U+104F6","U+104F7","U+104F8","U+104F9","U+104FA",
     "U+104FB","U+10597","U+10598","U+10599","U+1059A","U+1059B","U+1059C","U+1059D","U+1059E","U+1059F","U+105A0","U+105A1",
     "U+105A3","U+105A4","U+105A5","U+105A6","U+105A7","U+105A8","U+105A9","U+105AA","U+105AB","U+105AC","U+105AD","U+105AE",
     "U+105AF","U+105B0","U+105B1","U+105B3","U+105B4","U+105B5","U+105B6","U+105B7","U+105B8","U+105B9","U+105BB","U+105BC",
     "U+10CC0","U+10CC1","U+10CC2","U+10CC3","U+10CC4","U+10CC5","U+10CC6","U+10CC7","U+10CC8","U+10CC9","U+10CCA","U+10CCB",
     "U+10CCC","U+10CCD","U+10CCE","U+10CCF","U+10CD0","U+10CD1","U+10CD2","U+10CD3","U+10CD4","U+10CD5","U+10CD6","U+10CD7",
     "U+10CD8","U+10CD9","U+10CDA","U+10CDB","U+10CDC","U+10CDD","U+10CDE","U+10CDF","U+10CE0","U+10CE1","U+10CE2","U+10CE3",
     "U+10CE4","U+10CE5","U+10CE6","U+10CE7","U+10CE8","U+10CE9","U+10CEA","U+10CEB","U+10CEC","U+10CED","U+10CEE","U+10CEF",
     "U+10CF0","U+10CF1","U+10CF2","U+118C0","U+118C1","U+118C2","U+118C3","U+118C4","U+118C5","U+118C6","U+118C7","U+118C8",
     "U+118C9","U+118CA","U+118CB","U+118CC","U+118CD","U+118CE","U+118CF","U+118D0","U+118D1","U+118D2","U+118D3","U+118D4",
     "U+118D5","U+118D6","U+118D7","U+118D8","U+118D9","U+118DA","U+118DB","U+118DC","U+118DD","U+118DE","U+118DF","U+16E60",
     "U+16E61","U+16E62","U+16E63","U+16E64","U+16E65","U+16E66","U+16E67","U+16E68","U+16E69","U+16E6A","U+16E6B","U+16E6C",
     "U+16E6D","U+16E6E","U+16E6F","U+16E70","U+16E71","U+16E72","U+16E73","U+16E74","U+16E75","U+16E76","U+16E77","U+16E78",
     "U+16E79","U+16E7A","U+16E7B","U+16E7C","U+16E7D","U+16E7E","U+16E7F","U+1E922","U+1E923","U+1E924","U+1E925","U+1E926",
     "U+1E927","U+1E928","U+1E929","U+1E92A","U+1E92B","U+1E92C","U+1E92D","U+1E92E","U+1E92F","U+1E930","U+1E931","U+1E932",
     "U+1E933","U+1E934","U+1E935","U+1E936","U+1E937","U+1E938","U+1E939","U+1E93A","U+1E93B","U+1E93C","U+1E93D","U+1E93E",
     "U+1E93F","U+1E940","U+1E941","U+1E942","U+1E943">>

ToUpperFrom ==
    <<"a","b","c","d","e","f","g","h","i","j","k","l",
     "m","n","o","p","q","r","s","t","u","v","w","x",
     "y","z","µ","à","á","â","ã","ä","å","æ","ç","è",
     "é","ê","ë","ì","í","î","ï","ð","ñ","ò","ó","ô",
     "õ","ö","ø","ù","ú","û","ü","ý","þ","ÿ","U+0101","U+0103",
     "U+0105","U+0107","U+0109","U+010B","U+010D","U+010F","U+0111","U+0113","U+0115","U+0117","U+0119","U+011B",
     "U+011D","U+011F","U+0121","U+0123","U+0125","U+0127","U+0129","U+012B","U+012D","U+012F","U+0131","U+0133",
     "U+0135","U+0137","U+013A","U+013C","U+013E","U+0140","U+0142","U+0144","U+0146","U+0148","U+014B","U+014D",
     "U+014F","U+0151","U+0153","U+0155","U+0157","U+0159","U+015B","U+015D","U+015F","U+0161","U+0163","U+0165",
     "U+0167","U+0169","U+016B","U+016D","U+016F","U+0171","U+0173","U+0175","U+0177","U+017A","U+017C","U+017E",
     "U+017F","ƀ","ƃ","ƅ","ƈ","ƌ","ƒ","ƕ","ƙ","ƚ","ƞ","ơ",
     "ƣ","ƥ","ƨ","ƭ","ư","ƴ","ƶ","ƹ","ƽ","ƿ","ǅ","ǆ",
     "ǈ","ǉ","ǋ","ǌ","ǎ","ǐ","ǒ","ǔ","ǖ","ǘ","ǚ","ǜ",
     "ǝ","ǟ","ǡ","ǣ","ǥ","ǧ","ǩ","ǫ","ǭ","ǯ","ǲ","ǳ",
     "ǵ","ǹ","ǻ","ǽ","ǿ","U+0201","U+0203","U+0205","U+0207","U+0209","U+020B","U+020D",
     "U+020F","U+0211","U+0213","U+0215","U+0217","U+0219","U+021B","U+021D","U+021F","U+0223","U+0225","U+0227",
     "U+0229","U+022B","U+022D","U+022F","U+0231","U+0233","U+023C","U+023F","U+0240","U+0242","U+0247","U+0249",
     "U+024B","U+024D","U+024F","U+0250","U+0251","U+0252","U+0253","U+0254","U+0256","U+0257","U+0259","U+025B",
     "U+025C","U+0260","U+0261","U+0263","U+0265","U+0266","U+0268","U+0269","U+026A","U+026B","U+026C","U+026F",
     "U+0271","U+0272","U+0275","U+027D","ʀ","ʂ","ʃ","ʇ","ʈ","ʉ","ʊ","ʋ",
     "ʌ","ʒ","ʝ","ʞ","U+0345","U+0371","U+0373","U+0377","U+037B","U+037C","U+037D","ά",
     "έ","ή","ί","α","β","γ","δ","ε","ζ","η","θ","ι",
     "κ","λ","μ","ν","ξ","ο","π","ρ","ς","σ","τ","υ",
     "φ","χ","ψ","ω","ϊ","ϋ","ό","ύ","ώ","ϐ","ϑ","ϕ",
     "ϖ","ϗ","ϙ","ϛ","ϝ","ϟ","ϡ","ϣ","ϥ","ϧ","ϩ","ϫ",
     "ϭ","ϯ","ϰ","ϱ","ϲ","ϳ","ϵ","ϸ","ϻ","U+0430","U+0431","U+0432",
     "U+0433","U+0434","U+0435","U+0436","U+0437","U+0438","U+0439","U+043A","U+043B","U+043C","U+043D","U+043E",
     "U+043F","U+0440","U+0441","U+0442","U+0443","U+0444","U+0445","U+0446","U+0447","U+0448","U+0449","U+044A",
     "U+044B","U+044C","U+044D","U+044E","U+044F","U+0450","U+0451","U+0452","U+0453","U+0454","U+0455","U+0456",
     "U+0457","U+0458","U+0459","U+045A","U+045B","U+045C","U+045D","U+045E","U+045F","U+0461","U+0463","U+0465",
     "U+0467","U+0469","U+046B","U+046D","U+046F","U+0471","U+0473","U+0475","U+0477","U+0479","U+047B","U+047D",
     "U+047F","ҁ","ҋ","ҍ","ҏ","ґ","ғ","ҕ","җ","ҙ","қ","ҝ",
     "ҟ","ҡ","ң","ҥ","ҧ","ҩ","ҫ","ҭ","ү","ұ","ҳ","ҵ",
     "ҷ","ҹ","һ","ҽ","ҿ","ӂ","ӄ","ӆ","ӈ","ӊ","ӌ","ӎ",
     "ӏ","ӑ","ӓ","ӕ","ӗ","ә","ӛ","ӝ","ӟ","ӡ","ӣ","ӥ",
     "ӧ","ө","ӫ","ӭ","ӯ","ӱ","ӳ","ӵ","ӷ","ӹ","ӻ","ӽ",
     "ӿ","U+0501","U+0503","U+0505","U+0507","U+0509","U+050B","U+050D","U+050F","U+0511","U+0513","U+0515",
     "U+0517","U+0519","U+051B","U+051D","U+051F","U+0521","U+0523","U+0525","U+0527","U+0529","U+052B","U+052D",
     "U+052F","U+0561","U+0562","U+0563","U+0564","U+0565","U+0566","U+0567","U+0568","U+0569","U+056A","U+056B",
     "U+056C","U+056D","U+056E","U+056F","U+0570","U+0571","U+0572","U+0573","U+0574","U+0575","U+0576","U+0577",
     "U+0578","U+0579","U+057A","U+057B","U+057C","U+057D","U+057E","U+057F","ր","ց","ւ","փ",
     "ք","օ","ֆ","ა","ბ","გ","დ","ე","ვ","ზ","თ","ი",
     "კ","ლ","მ","ნ","ო","პ","ჟ","რ","ს","ტ","უ","ფ",
     "ქ","ღ","ყ","შ","ჩ","ც","ძ","წ","ჭ","ხ","ჯ","ჰ",
     "ჱ","ჲ","ჳ","ჴ","ჵ","ჶ","ჷ","ჸ","ჹ","ჺ","ჽ","ჾ",
     "ჿ","ᏸ","ᏹ","ᏺ","ᏻ","ᏼ","ᏽ","ᲀ","ᲁ","ᲂ","ᲃ","ᲄ",
     "ᲅ","ᲆ","ᲇ","ᲈ","U+1D79","U+1D7D","ᶎ","U+1E01","U+1E03","U+1E05","U+1E07","U+1E09",
     "U+1E0B","U+1E0D","U+1E0F","U+1E11","U+1E13","U+1E15","U+1E17","U+1E19","U+1E1B","U+1E1D","U+1E1F","U+1E21",
     "U+1E23","U+1E25","U+1E27","U+1E29","U+1E2B","U+1E2D","U+1E2F","U+1E31","U+1E33","U+1E35","U+1E37","U+1E39",
     "U+1E3B","U+1E3D","U+1E3F","U+1E41","U+1E43","U+1E45","U+1E47","U+1E49","U+1E4B","U+1E4D","U+1E4F","U+1E51",
     "U+1E53","U+1E55","U+1E57","U+1E59","U+1E5B","U+1E5D","U+1E5F","U+1E61","U+1E63","U+1E65","U+1E67","U+1E69",
     "U+1E6B","U+1E6D","U+1E6F","U+1E71","U+1E73","U+1E75","U+1E77","U+1E79","U+1E7B","U+1E7D","U+1E7F","ẁ",
     "ẃ","ẅ","ẇ","ẉ","ẋ","ẍ","ẏ","ẑ","ẓ","ẕ","ẛ","ạ",
     "ả","ấ","ầ","ẩ","ẫ","ậ","ắ","ằ","ẳ","ẵ","ặ","ẹ",
     "ẻ","ẽ","ế","ề","ể","ễ","ệ","ỉ","ị","ọ","ỏ","ố",
     "ồ","ổ","ỗ","ộ","ớ","ờ","ở","ỡ","ợ","ụ","ủ","ứ",
     "ừ","ử","ữ","ự","ỳ","ỵ","ỷ","ỹ","ỻ","ỽ","ỿ","U+1F00",
     "U+1F01","U+1F02","U+1F03","U+1F04","U+1F05","U+1F06","U+1F07","U+1F10","U+1F11","U+1F12","U+1F13","U+1F14",
     "U+1F15","U+1F20","U+1F21","U+1F22","U+1F23","U+1F24","U+1F25","U+1F26","U+1F27","U+1F30","U+1F31","U+1F32",
     "U+1F33","U+1F34","U+1F35","U+1F36","U+1F37","U+1F40","U+1F41","U+1F42","U+1F43","U+1F44","U+1F45","U+1F51",
     "U+1F53","U+1F55","U+1F57","U+1F60","U+1F61","U+1F62","U+1F63","U+1F64","U+1F65","U+1F66","U+1F67","U+1F70",
     "U+1F71","U+1F72","U+1F73","U+1F74","U+1F75","U+1F76","U+1F77","U+1F78","U+1F79","U+1F7A","U+1F7B","U+1F7C",
     "U+1F7D","ᾀ","ᾁ","ᾂ","ᾃ","ᾄ","ᾅ","ᾆ","ᾇ","ᾐ","ᾑ","ᾒ",
     "ᾓ","ᾔ","ᾕ","ᾖ","ᾗ","ᾠ","ᾡ","ᾢ","ᾣ","ᾤ","ᾥ","ᾦ",
     "ᾧ","ᾰ","ᾱ","ᾳ","ι","ῃ","ῐ","ῑ","ῠ","ῡ","ῥ","ῳ",
     "U+214E","U+2170","U+2171","U+2172","U+2173","U+2174","U+2175","U+2176","U+2177","U+2178","U+2179","U+217A",
     "U+217B","U+217C","U+217D","U+217E","U+217F","ↄ","ⓐ","ⓑ","ⓒ","ⓓ","ⓔ","ⓕ",
     "ⓖ","ⓗ","ⓘ","ⓙ","ⓚ","ⓛ","ⓜ","ⓝ","ⓞ","ⓟ","ⓠ","ⓡ",
     "ⓢ","ⓣ","ⓤ","ⓥ","ⓦ","ⓧ","ⓨ","ⓩ","U+2C30","U+2C31","U+2C32","U+2C33",
     "U+2C34","U+2C35","U+2C36","U+2C37","U+2C38","U+2C39","U+2C3A","U+2C3B","U+2C3C","U+2C3D","U+2C3E","U+2C3F",
     "U+2C40","U+2C41","U+2C42","U+2C43","U+2C44","U+2C45","U+2C46","U+2C47","U+2C48","U+2C49","U+2C4A","U+2C4B",
     "U+2C4C","U+2C4D","U+2C4E","U+2C4F","U+2C50","U+2C51","U+2C52","U+2C53","U+2C54","U+2C55","U+2C56","U+2C57",
     "U+2C58","U+2C59","U+2C5A","U+2C5B","U+2C5C","U+2C5D","U+2C5E","U+2C5F","U+2C61","U+2C65","U+2C66","U+2C68",
     "U+2C6A","U+2C6C","U+2C73","U+2C76","ⲁ","ⲃ","ⲅ","ⲇ","ⲉ","ⲋ","ⲍ","ⲏ",
     "ⲑ","ⲓ","ⲕ","ⲗ","ⲙ","ⲛ","ⲝ","ⲟ","ⲡ","ⲣ","ⲥ","ⲧ",
     "ⲩ","ⲫ","ⲭ","ⲯ","ⲱ","ⲳ","ⲵ","ⲷ","ⲹ","ⲻ","ⲽ","ⲿ",
     "ⳁ","ⳃ","ⳅ","ⳇ","ⳉ","ⳋ","ⳍ","ⳏ","ⳑ","ⳓ","ⳕ","ⳗ",
     "ⳙ","ⳛ","ⳝ","ⳟ","ⳡ","ⳣ","ⳬ","ⳮ","ⳳ","U+2D00","U+2D01","U+2D02",
     "U+2D03","U+2D04","U+2D05","U+2D06","U+2D07","U+2D08","U+2D09","U+2D0A","U+2D0B","U+2D0C","U+2D0D","U+2D0E",
     "U+2D0F","U+2D10","U+2D11","U+2D12","U+2D13","U+2D14","U+2D15","U+2D16","U+2D17","U+2D18","U+2D19","U+2D1A",
     "U+2D1B","U+2D1C","U+2D1D","U+2D1E","U+2D1F","U+2D20","U+2D21","U+2D22","U+2D23","U+2D24","U+2D25","U+2D27",
     "U+2D2D","U+A641","U+A643","U+A645","U+A647","U+A649","U+A64B","U+A64D","U+A64F","U+A651","U+A653","U+A655",
     "U+A657","U+A659","U+A65B","U+A65D","U+A65F","U+A661","U+A663","U+A665","U+A667","U+A669","U+A66B","U+A66D",
     "ꚁ","ꚃ","ꚅ","ꚇ","ꚉ","ꚋ","ꚍ","ꚏ","ꚑ","ꚓ","ꚕ","ꚗ",
     "ꚙ","ꚛ","U+A723","U+A725","U+A727","U+A729","U+A72B","U+A72D","U+A72F","U+A733","U+A735","U+A737",
     "U+A739","U+A73B","U+A73D","U+A73F","U+A741","U+A743","U+A745","U+A747","U+A749","U+A74B","U+A74D","U+A74F",
     "U+A751","U+A753","U+A755","U+A757","U+A759","U+A75B","U+A75D","U+A75F","U+A761","U+A763","U+A765","U+A767",
     "U+A769","U+A76B","U+A76D","U+A76F","U+A77A","U+A77C","U+A77F","ꞁ","ꞃ","ꞅ","ꞇ","ꞌ",
     "ꞑ","ꞓ","ꞔ","ꞗ","ꞙ","ꞛ","ꞝ","ꞟ","ꞡ","ꞣ","ꞥ","ꞧ",
     "ꞩ","ꞵ","ꞷ","ꞹ","ꞻ","ꞽ","ꞿ","ꟁ","ꟃ","ꟈ","ꟊ","ꟑ",
     "ꟗ","ꟙ","ꟶ","U+AB53","U+AB70","U+AB71","U+AB72","U+AB73","U+AB74","U+AB75","U+AB76","U+AB77",
     "U+AB78","U+AB79","U+AB7A","U+AB7B","U+AB7C","U+AB7D","U+AB7E","U+AB7F","ꮀ","ꮁ","ꮂ","ꮃ",
     "ꮄ","ꮅ","ꮆ","ꮇ","ꮈ","ꮉ","ꮊ","ꮋ","ꮌ","ꮍ","ꮎ","ꮏ",
     "ꮐ","ꮑ","ꮒ","ꮓ","ꮔ","ꮕ","ꮖ","ꮗ","ꮘ","ꮙ","ꮚ","ꮛ",
     "ꮜ","ꮝ","ꮞ","ꮟ","ꮠ","ꮡ","ꮢ","ꮣ","ꮤ","ꮥ","ꮦ","ꮧ",
     "ꮨ","ꮩ","ꮪ","ꮫ","ꮬ","ꮭ","ꮮ","ꮯ","ꮰ","ꮱ","ꮲ","ꮳ",
     "ꮴ","ꮵ","ꮶ","ꮷ","ꮸ","ꮹ","ꮺ","ꮻ","ꮼ","ꮽ","ꮾ","ꮿ",
     "U+FF41","U+FF42","U+FF43","U+FF44","U+FF45","U+FF46","U+FF47","U+FF48","U+FF49","U+FF4A","U+FF4B","U+FF4C",
     "U+FF4D","U+FF4E","U+FF4F","U+FF50","U+FF51","U+FF52","U+FF53","U+FF54","U+FF55","U+FF56","U+FF57","U+FF58",
     "U+FF59","U+FF5A","U+10428","U+10429","U+1042A","U+1042B","U+1042C","U+1042D","U+1042E","U+1042F","U+10430","U+10431",
     "U+10432","U+10433","U+10434","U+10435","U+10436","U+10437","U+10438","U+10439","U+1043A","U+1043B","U+1043C","U+1043D",
     "U+1043E","U+1043F","U+10440","U+10441","U+10442","U+10443","U+10444","U+10445","U+10446","U+10447","U+10448","U+10449",
     "U+1044A","U+1044B","U+1044C","U+1044D","U+1044E","U+1044F","U+104D8","U+104D9","U+104DA","U+104DB","U+104DC","U+104DD",
     "U+104DE","U+104DF","U+104E0","U+104E1","U+104E2","U+104E3","U+104E4","U+104E5","U+104E6","U+104E7","U+104E8","U+104E9",
     "U+104EA","U+104EB","U+104EC","U+104ED","U+104EE","U+104EF","U+104F0","U+104F1","U+104F2","U+104F3","U+104F4","U+104F5",
     "U+104F6","U+104F7","U+104F8","U+104F9","U+104FA","U+104FB","U+10597","U+10598","U+10599","U+1059A","U+1059B","U+1059C",
     "U+1059D","U+1059E","U+1059F","U+105A0","U+105A1","U+105A3","U+105A4","U+105A5","U+105A6","U+105A7","U+105A8","U+105A9",
     "U+105AA","U+105AB","U+105AC","U+105AD","U+105AE","U+105AF","U+105B0","U+105B1","U+105B3","U+105B4","U+105B5","U+105B6",
     "U+105B7","U+105B8","U+105B9","U+105BB","U+105BC","U+10CC0","U+10CC1","U+10CC2","U+10CC3","U+10CC4","U+10CC5","U+10CC6",
     "U+10CC7","U+10CC8","U+10CC9","U+10CCA","U+10CCB","U+10CCC","U+10CCD","U+10CCE","U+10CCF","U+10CD0","U+10CD1","U+10CD2",
     "U+10CD3","U+10CD4","U+10CD5","U+10CD6","U+10CD7","U+10CD8","U+10CD9","U+10CDA","U+10CDB","U+10CDC","U+10CDD","U+10CDE",
     "U+10CDF","U+10CE0","U+10CE1","U+10CE2","U+10CE3","U+10CE4","U+10CE5","U+10CE6","U+10CE7","U+10CE8","U+10CE9","U+10CEA",
     "U+10CEB","U+10CEC","U+10CED","U+10CEE","U+10CEF","U+10CF0","U+10CF1","U+10CF2","U+118C0","U+118C1","U+118C2","U+118C3",
     "U+118C4","U+118C5","U+118C6","U+118C7","U+118C8","U+118C9","U+118CA","U+118CB","U+118CC","U+118CD","U+118CE","U+118CF",
     "U+118D0","U+118D1","U+118D2","U+118D3","U+118D4","U+118D5","U+118D6","U+118D7","U+118D8","U+118D9","U+118DA","U+118DB",
     "U+118DC","U+118DD","U+118DE","U+118DF","U+16E60","U+16E61","U+16E62","U+16E63","U+16E64","U+16E65","U+16E66","U+16E67",
     "U+16E68","U+16E69","U+16E6A","U+16E6B","U+16E6C","U+16E6D","U+16E6E","U+16E6F","U+16E70","U+16E71","U+16E72","U+16E73",
     "U+16E74","U+16E75","U+16E76","U+16E77","U+16E78","U+16E79","U+16E7A","U+16E7B","U+16E7C","U+16E7D","U+16E7E","U+16E7F",
     "U+1E922","U+1E923","U+1E924","U+1E925","U+1E926","U+1E927","U+1E928","U+1E929","U+1E92A","U+1E92B","U+1E92C","U+1E92D",
     "U+1E92E","U+1E92F","U+1E930","U+1E931","U+1E932","U+1E933","U+1E934","U+1E935","U+1E936","U+1E937","U+1E938","U+1E939",
     "U+1E93A","U+1E93B","U+1E93C","U+1E93D","U+1E93E","U+1E93F","U+1E940","U+1E941","U+1E942","U+1E943">>

ToUpperTo ==
    <<"A","B","C","D","E","F","G","H","I","J","K","L",
     "M","N","O","P","Q","R","S","T","U","V","W","X",
     "Y","Z","Μ","À","Á","Â","Ã","Ä","Å","Æ","Ç","È",
     "É","Ê","Ë","Ì","Í","Î","Ï","Ð","Ñ","Ò","Ó","Ô",
     "Õ","Ö","Ø","Ù","Ú","Û","Ü","Ý","Þ","U+0178","U+0100","U+0102",
     "U+0104","U+0106","U+0108","U+010A","U+010C","U+010E","U+0110","U+0112","U+0114","U+0116","U+0118","U+011A",
     "U+011C","U+011E","U+0120","U+0122","U+0124","U+0126","U+0128","U+012A","U+012C","U+012E","I","U+0132",
     "U+0134","U+0136","U+0139","U+013B","U+013D","U+013F","U+0141","U+0143","U+0145","U+0147","U+014A","U+014C",
     "U+014E","U+0150","U+0152","U+0154","U+0156","U+0158","U+015A","U+015C","U+015E","U+0160","U+0162","U+0164",
     "U+0166","U+0168","U+016A","U+016C","U+016E","U+0170","U+0172","U+0174","U+0176","U+0179","U+017B","U+017D",
     "S","U+0243","Ƃ","Ƅ","Ƈ","Ƌ","Ƒ","Ƕ","Ƙ","U+023D","U+0220","Ơ",
     "Ƣ","Ƥ","Ƨ","Ƭ","Ư","Ƴ","Ƶ","Ƹ","Ƽ","Ƿ","Ǆ","Ǆ",
     "Ǉ","Ǉ","Ǌ","Ǌ","Ǎ","Ǐ","Ǒ","Ǔ","Ǖ","Ǘ","Ǚ","Ǜ",
     "Ǝ","Ǟ","Ǡ","Ǣ","Ǥ","Ǧ","Ǩ","Ǫ","Ǭ","Ǯ","Ǳ","Ǳ",
     "Ǵ","Ǹ","Ǻ","Ǽ","Ǿ","U+0200","U+0202","U+0204","U+0206","U+0208","U+020A","U+020C",
     "U+020E","U+0210","U+0212","U+0214","U+0216","U+0218","U+021A","U+021C","U+021E","U+0222","U+0224","U+0226",
     "U+0228","U+022A","U+022C","U+022E","U+0230","U+0232","U+023B","U+2C7E","U+2C7F","U+0241","U+0246","U+0248",
     "U+024A","U+024C","U+024E","U+2C6F","U+2C6D","U+2C70","Ɓ","Ɔ","Ɖ","Ɗ","Ə","Ɛ",
     "Ɜ","Ɠ","Ɡ","Ɣ","Ɥ","Ɦ","Ɨ","Ɩ","Ɪ","U+2C62","Ɬ","Ɯ",
     "U+2C6E","Ɲ","Ɵ","U+2C64","Ʀ","Ʂ","Ʃ","Ʇ","Ʈ","U+0244","Ʊ","Ʋ",
     "U+0245","Ʒ","Ʝ","Ʞ","Ι","U+0370","U+0372","U+0376","Ͻ","Ͼ","Ͽ","Ά",
     "Έ","Ή","Ί","Α","Β","Γ","Δ","Ε","Ζ","Η","Θ","Ι",
     "Κ","Λ","Μ","Ν","Ξ","Ο","Π","Ρ","Σ","Σ","Τ","Υ",
     "Φ","Χ","Ψ","Ω","Ϊ","Ϋ","Ό","Ύ","Ώ","Β","Θ","Φ",
     "Π","Ϗ","Ϙ","Ϛ","Ϝ","Ϟ","Ϡ","Ϣ","Ϥ","Ϧ","Ϩ","Ϫ",
     "Ϭ","Ϯ","Κ","Ρ","Ϲ","U+037F","Ε","Ϸ","Ϻ","U+0410","U+0411","U+0412",
     "U+0413","U+0414","U+0415","U+0416","U+0417","U+0418","U+0419","U+041A","U+041B","U+041C","U+041D","U+041E",
     "U+041F","U+0420","U+0421","U+0422","U+0423","U+0424","U+0425","U+0426","U+0427","U+0428","U+0429","U+042A",
     "U+042B","U+042C","U+042D","U+042E","U+042F","U+0400","U+0401","U+0402","U+0403","U+0404","U+0405","U+0406",
     "U+0407","U+0408","U+0409","U+040A","U+040B","U+040C","U+040D","U+040E","U+040F","U+0460","U+0462","U+0464",
     "U+0466","U+0468","U+046A","U+046C","U+046E","U+0470","U+0472","U+0474","U+0476","U+0478","U+047A","U+047C",
     "U+047E","Ҁ","Ҋ","Ҍ","Ҏ","Ґ","Ғ","Ҕ","Җ","Ҙ","Қ","Ҝ",
     "Ҟ","Ҡ","Ң","Ҥ","Ҧ","Ҩ","Ҫ","Ҭ","Ү","Ұ","Ҳ","Ҵ",
     "Ҷ","Ҹ","Һ","Ҽ","Ҿ","Ӂ","Ӄ","Ӆ","Ӈ","Ӊ","Ӌ","Ӎ",
     "Ӏ","Ӑ","Ӓ","Ӕ","Ӗ","Ә","Ӛ","Ӝ","Ӟ","Ӡ","Ӣ","Ӥ",
     "Ӧ","Ө","Ӫ","Ӭ","Ӯ","Ӱ","Ӳ","Ӵ","Ӷ","Ӹ","Ӻ","Ӽ",
     "Ӿ","U+0500","U+0502","U+0504","U+0506","U+0508","U+050A","U+050C","U+050E","U+0510","U+0512","U+0514",
     "U+0516","U+0518","U+051A","U+051C","U+051E","U+0520","U+0522","U+0524","U+0526","U+0528","U+052A","U+052C",
     "U+052E","U+0531","U+0532","U+0533","U+0534","U+0535","U+0536","U+0537","U+0538","U+0539","U+053A","U+053B",
     "U+053C","U+053D","U+053E","U+053F","U+0540","U+0541","U+0542","U+0543","U+0544","U+0545","U+0546","U+0547",
     "U+0548","U+0549","U+054A","U+054B","U+054C","U+054D","U+054E","U+054F","U+0550","U+0551","U+0552","U+0553",
     "U+0554","U+0555","U+0556","Ა","Ბ","Გ","Დ","Ე","Ვ","Ზ","Თ","Ი",
     "Კ","Ლ","Მ","Ნ","Ო","Პ","Ჟ","Რ","Ს","Ტ","Უ","Ფ",
     "Ქ","Ღ","Ყ","Შ","Ჩ","Ც","Ძ","Წ","Ჭ","Ხ","Ჯ","Ჰ",
     "Ჱ","Ჲ","Ჳ","Ჴ","Ჵ","Ჶ","Ჷ","Ჸ","Ჹ","Ჺ","Ჽ","Ჾ",
     "Ჿ","Ᏸ","Ᏹ","Ᏺ","Ᏻ","Ᏼ","Ᏽ","U+0412","U+0414","U+041E","U+0421","U+0422",
     "U+0422","U+042A","U+0462","U+A64A","U+A77D","U+2C63","Ᶎ","U+1E00","U+1E02","U+1E04","U+1E06","U+1E08",
     "U+1E0A","U+1E0C","U+1E0E","U+1E10","U+1E12","U+1E14","U+1E16","U+1E18","U+1E1A","U+1E1C","U+1E1E","U+1E20",
     "U+1E22","U+1E24","U+1E26","U+1E28","U+1E2A","U+1E2C","U+1E2E","U+1E30","U+1E32","U+1E34","U+1E36","U+1E38",
     "U+1E3A","U+1E3C","U+1E3E","U+1E40","U+1E42","U+1E44","U+1E46","U+1E48","U+1E4A","U+1E4C","U+1E4E","U+1E50",
     "U+1E52","U+1E54","U+1E56","U+1E58","U+1E5A","U+1E5C","U+1E5E","U+1E60","U+1E62","U+1E64","U+1E66","U+1E68",
     "U+1E6A","U+1E6C","U+1E6E","U+1E70","U+1E72","U+1E74","U+1E76","U+1E78","U+1E7A","U+1E7C","U+1E7E","Ẁ",
     "Ẃ","Ẅ","Ẇ","Ẉ","Ẋ","Ẍ","Ẏ","Ẑ","Ẓ","Ẕ","U+1E60","Ạ",
     "Ả","Ấ","Ầ","Ẩ","Ẫ","Ậ","Ắ","Ằ","Ẳ","Ẵ","Ặ","Ẹ",
     "Ẻ","Ẽ","Ế","Ề","Ể","Ễ","Ệ","Ỉ","Ị","Ọ","Ỏ","Ố",
     "Ồ","Ổ","Ỗ","Ộ","Ớ","Ờ","Ở","Ỡ","Ợ","Ụ","Ủ","Ứ",
     "Ừ","Ử","Ữ","Ự","Ỳ","Ỵ","Ỷ","Ỹ","Ỻ","Ỽ","Ỿ","U+1F08",
     "U+1F09","U+1F0A","U+1F0B","U+1F0C","U+1F0D","U+1F0E","U+1F0F","U+1F18","U+1F19","U+1F1A","U+1F1B","U+1F1C",
     "U+1F1D","U+1F28","U+1F29","U+1F2A","U+1F2B","U+1F2C","U+1F2D","U+1F2E","U+1F2F","U+1F38","U+1F39","U+1F3A",
     "U+1F3B","U+1F3C","U+1F3D","U+1F3E","U+1F3F","U+1F48","U+1F49","U+1F4A","U+1F4B","U+1F4C","U+1F4D","U+1F59",
     "U+1F5B","U+1F5D","U+1F5F","U+1F68","U+1F69","U+1F6A","U+1F6B","U+1F6C","U+1F6D","U+1F6E","U+1F6F","Ὰ",
     "Ά","Ὲ","Έ","Ὴ","Ή","Ὶ","Ί","Ὸ","Ό","Ὺ","Ύ","Ὼ",
     "Ώ","ᾈ","ᾉ","ᾊ","ᾋ","ᾌ","ᾍ","ᾎ","ᾏ","ᾘ","ᾙ","ᾚ",
     "ᾛ","ᾜ","ᾝ","ᾞ","ᾟ","ᾨ","ᾩ","ᾪ","ᾫ","ᾬ","ᾭ","ᾮ",
     "ᾯ","Ᾰ","Ᾱ","ᾼ","Ι","ῌ","Ῐ","Ῑ","Ῠ","Ῡ","Ῥ","ῼ",
     "U+2132","U+2160","U+2161","U+2162","U+2163","U+2164","U+2165","U+2166","U+2167","U+2168","U+2169","U+216A",
     "U+216B","U+216C","U+216D","U+216E","U+216F","Ↄ","Ⓐ","Ⓑ","Ⓒ","Ⓓ","Ⓔ","Ⓕ",
     "Ⓖ","Ⓗ","Ⓘ","Ⓙ","Ⓚ","Ⓛ","Ⓜ","Ⓝ","Ⓞ","Ⓟ","Ⓠ","Ⓡ",
     "Ⓢ","Ⓣ","Ⓤ","Ⓥ","Ⓦ","Ⓧ","Ⓨ","Ⓩ","U+2C00","U+2C01","U+2C02","U+2C03",
     "U+2C04","U+2C05","U+2C06","U+2C07","U+2C08","U+2C09","U+2C0A","U+2C0B","U+2C0C","U+2C0D","U+2C0E","U+2C0F",
     "U+2C10","U+2C11","U+2C12","U+2C13","U+2C14","U+2C15","U+2C16","U+2C17","U+2C18","U+2C19","U+2C1A","U+2C1B",
     "U+2C1C","U+2C1D","U+2C1E","U+2C1F","U+2C20","U+2C21","U+2C22","U+2C23","U+2C24","U+2C25","U+2C26","U+2C27",
     "U+2C28","U+2C29","U+2C2A","U+2C2B","U+2C2C","U+2C2D","U+2C2E","U+2C2F","U+2C60","U+023A","U+023E","U+2C67",
     "U+2C69","U+2C6B","U+2C72","U+2C75","Ⲁ","Ⲃ","Ⲅ","Ⲇ","Ⲉ","Ⲋ","Ⲍ","Ⲏ",
     "Ⲑ","Ⲓ","Ⲕ","Ⲗ","Ⲙ","Ⲛ","Ⲝ","Ⲟ","Ⲡ","Ⲣ","Ⲥ","Ⲧ",
     "Ⲩ","Ⲫ","Ⲭ","Ⲯ","Ⲱ","Ⲳ","Ⲵ","Ⲷ","Ⲹ","Ⲻ","Ⲽ","Ⲿ",
     "Ⳁ","Ⳃ","Ⳅ","Ⳇ","Ⳉ","Ⳋ","Ⳍ","Ⳏ","Ⳑ","Ⳓ","Ⳕ","Ⳗ",
     "Ⳙ","Ⳛ","Ⳝ","Ⳟ","Ⳡ","Ⳣ","Ⳬ","Ⳮ","Ⳳ","Ⴀ","Ⴁ","Ⴂ",
     "Ⴃ","Ⴄ","Ⴅ","Ⴆ","Ⴇ","Ⴈ","Ⴉ","Ⴊ","Ⴋ","Ⴌ","Ⴍ","Ⴎ",
     "Ⴏ","Ⴐ","Ⴑ","Ⴒ","Ⴓ","Ⴔ","Ⴕ","Ⴖ","Ⴗ","Ⴘ","Ⴙ","Ⴚ",
     "Ⴛ","Ⴜ","Ⴝ","Ⴞ","Ⴟ","Ⴠ","Ⴡ","Ⴢ","Ⴣ","Ⴤ","Ⴥ","Ⴧ",
     "Ⴭ","U+A640","U+A642","U+A644","U+A646","U+A648","U+A64A","U+A64C","U+A64E","U+A650","U+A652","U+A654",
     "U+A656","U+A658","U+A65A","U+A65C","U+A65E","U+A660","U+A662","U+A664","U+A666","U+A668","U+A66A","U+A66C",
     "Ꚁ","Ꚃ","Ꚅ","Ꚇ","Ꚉ","Ꚋ","Ꚍ","Ꚏ","Ꚑ","Ꚓ","Ꚕ","Ꚗ",
     "Ꚙ","Ꚛ","U+A722","U+A724","U+A726","U+A728","U+A72A","U+A72C","U+A72E","U+A732","U+A734","U+A736",
     "U+A738","U+A73A","U+A73C","U+A73E","U+A740","U+A742","U+A744","U+A746","U+A748","U+A74A","U+A74C","U+A74E",
     "U+A750","U+A752","U+A754","U+A756","U+A758","U+A75A","U+A75C","U+A75E","U+A760","U+A762","U+A764","U+A766",
     "U+A768","U+A76A","U+A76C","U+A76E","U+A779","U+A77B","U+A77E","Ꞁ","Ꞃ","Ꞅ","Ꞇ","Ꞌ",
     "Ꞑ","Ꞓ","Ꞔ","Ꞗ","Ꞙ","Ꞛ","Ꞝ","Ꞟ","Ꞡ","Ꞣ","Ꞥ","Ꞧ",
     "Ꞩ","Ꞵ","Ꞷ","Ꞹ","Ꞻ","Ꞽ","Ꞿ","Ꟁ","Ꟃ","Ꟈ","Ꟊ","Ꟑ",
     "Ꟗ","Ꟙ","Ꟶ","Ꭓ","Ꭰ","Ꭱ","Ꭲ","Ꭳ","Ꭴ","Ꭵ","Ꭶ","Ꭷ",
     "Ꭸ","Ꭹ","Ꭺ","Ꭻ","Ꭼ","Ꭽ","Ꭾ","Ꭿ","Ꮀ","Ꮁ","Ꮂ","Ꮃ",
     "Ꮄ","Ꮅ","Ꮆ","Ꮇ","Ꮈ","Ꮉ","Ꮊ","Ꮋ","Ꮌ","Ꮍ","Ꮎ","Ꮏ",
     "Ꮐ","Ꮑ","Ꮒ","Ꮓ","Ꮔ","Ꮕ","Ꮖ","Ꮗ","Ꮘ","Ꮙ","Ꮚ","Ꮛ",
     "Ꮜ","Ꮝ","Ꮞ","Ꮟ","Ꮠ","Ꮡ","Ꮢ","Ꮣ","Ꮤ","Ꮥ","Ꮦ","Ꮧ",
     "Ꮨ","Ꮩ","Ꮪ","Ꮫ","Ꮬ","Ꮭ","Ꮮ","Ꮯ","Ꮰ","Ꮱ","Ꮲ","Ꮳ",
     "Ꮴ","Ꮵ","Ꮶ","Ꮷ","Ꮸ","Ꮹ","Ꮺ","Ꮻ","Ꮼ","Ꮽ","Ꮾ","Ꮿ",
     "U+FF21","U+FF22","U+FF23","U+FF24","U+FF25","U+FF26","U+FF27","U+FF28","U+FF29","U+FF2A","U+FF2B","U+FF2C",
     "U+FF2D","U+FF2E","U+FF2F","U+FF30","U+FF31","U+FF32","U+FF33","U+FF34","U+FF35","U+FF36","U+FF37","U+FF38",
     "U+FF39","U+FF3A","U+10400","U+10401","U+10402","U+10403","U+10404","U+10405","U+10406","U+10407","U+10408","U+10409",
     "U+1040A","U+1040B","U+1040C","U+1040D","U+1040E","U+1040F","U+10410","U+10411","U+10412","U+10413","U+10414","U+10415",
     "U+10416","U+10417","U+10418","U+10419","U+1041A","U+1041B","U+1041C","U+1041D","U+1041E","U+1041F","U+10420","U+10421",
     "U+10422","U+10423","U+10424","U+10425","U+10426","U+10427","U+104B0","U+104B1","U+104B2","U+104B3","U+104B4","U+104B5",
     "U+104B6","U+104B7","U+104B8","U+104B9","U+104BA","U+104BB","U+104BC","U+104BD","U+104BE","U+104BF","U+104C0","U+104C1",
     "U+104C2","U+104C3","U+104C4","U+104C5","U+104C6","U+104C7","U+104C8","U+104C9","U+104CA","U+104CB","U+104CC","U+104CD",
     "U+104CE","U+104CF","U+104D0","U+104D1","U+104D2","U+104D3","U+10570","U+10571","U+10572","U+10573","U+10574","U+10575",
     "U+10576","U+10577","U+10578","U+10579","U+1057A","U+1057C","U+1057D","U+1057E","U+1057F","U+10580","U+10581","U+10582",
     "U+10583","U+10584","U+10585","U+10586","U+10587","U+10588","U+10589","U+1058A","U+1058C","U+1058D","U+1058E","U+1058F",
     "U+10590","U+10591","U+10592","U+10594","U+10595","U+10C80","U+10C81","U+10C82","U+10C83","U+10C84","U+10C85","U+10C86",
     "U+10C87","U+10C88","U+10C89","U+10C8A","U+10C8B","U+10C8C","U+10C8D","U+10C8E","U+10C8F","U+10C90","U+10C91","U+10C92",
     "U+10C93","U+10C94","U+10C95","U+10C96","U+10C97","U+10C98","U+10C99","U+10C9A","U+10C9B","U+10C9C","U+10C9D","U+10C9E",
     "U+10C9F","U+10CA0","U+10CA1","U+10CA2","U+10CA3","U+10CA4","U+10CA5","U+10CA6","U+10CA7","U+10CA8","U+10CA9","U+10CAA",
     "U+10CAB","U+10CAC","U+10CAD","U+10CAE","U+10CAF","U+10CB0","U+10CB1","U+10CB2","U+118A0","U+118A1","U+118A2","U+118A3",
     "U+118A4","U+118A5","U+118A6","U+118A7","U+118A8","U+118A9","U+118AA","U+118AB","U+118AC","U+118AD","U+118AE","U+118AF",
     "U+118B0","U+118B1","U+118B2","U+118B3","U+118B4","U+118B5","U+118B6","U+118B7","U+118B8","U+118B9","U+118BA","U+118BB",
     "U+118BC","U+118BD","U+118BE","U+118BF","U+16E40","U+16E41","U+16E42","U+16E43","U+16E44","U+16E45","U+16E46","U+16E47",
     "U+16E48","U+16E49","U+16E4A","U+16E4B","U+16E4C","U+16E4D","U+16E4E","U+16E4F","U+16E50","U+16E51","U+16E52","U+16E53",
     "U+16E54","U+16E55","U+16E56","U+16E57","U+16E58","U+16E59","U+16E5A","U+16E5B","U+16E5C","U+16E5D","U+16E5E","U+16E5F",
     "U+1E900","U+1E901","U+1E902","U+1E903","U+1E904","U+1E905","U+1E906","U+1E907","U+1E908","U+1E909","U+1E90A","U+1E90B",
     "U+1E90C","U+1E90D","U+1E90E","U+1E90F","U+1E910","U+1E911","U+1E912","U+1E913","U+1E914","U+1E915","U+1E916","U+1E917",
     "U+1E918","U+1E919","U+1E91A","U+1E91B","U+1E91C","U+1E91D","U+1E91E","U+1E91F","U+1E920","U+1E921">>

\* The upper-case letters, unicode.Upper: the category Lu.  A letter of
\* title case or a Roman numeral has a lower case and is not among them.
UpperLetterSeq ==
    <<"A","B","C","D","E","F","G","H","I","J","K","L",
     "M","N","O","P","Q","R","S","T","U","V","W","X",
     "Y","Z","À","Á","Â","Ã","Ä","Å","Æ","Ç","È","É",
     "Ê","Ë","Ì","Í","Î","Ï","Ð","Ñ","Ò","Ó","Ô","Õ",
     "Ö","Ø","Ù","Ú","Û","Ü","Ý","Þ","U+0100","U+0102","U+0104","U+0106",
     "U+0108","U+010A","U+010C","U+010E","U+0110","U+0112","U+0114","U+0116","U+0118","U+011A","U+011C","U+011E",
     "U+0120","U+0122","U+0124","U+0126","U+0128","U+012A","U+012C","U+012E","U+0130","U+0132","U+0134","U+0136",
     "U+0139","U+013B","U+013D","U+013F","U+0141","U+0143","U+0145","U+0147","U+014A","U+014C","U+014E","U+0150",
     "U+0152","U+0154","U+0156","U+0158","U+015A","U+015C","U+015E","U+0160","U+0162","U+0164","U+0166","U+0168",
     "U+016A","U+016C","U+016E","U+0170","U+0172","U+0174","U+0176","U+0178","U+0179","U+017B","U+017D","Ɓ",
     "Ƃ","Ƅ","Ɔ","Ƈ","Ɖ","Ɗ","Ƌ","Ǝ","Ə","Ɛ","Ƒ","Ɠ",
     "Ɣ","Ɩ","Ɨ","Ƙ","Ɯ","Ɲ","Ɵ","Ơ","Ƣ","Ƥ","Ʀ","Ƨ",
     "Ʃ","Ƭ","Ʈ","Ư","Ʊ","Ʋ","Ƴ","Ƶ","Ʒ","Ƹ","Ƽ","Ǆ",
     "Ǉ","Ǌ","Ǎ","Ǐ","Ǒ","Ǔ","Ǖ","Ǘ","Ǚ","Ǜ","Ǟ","Ǡ",
     "Ǣ","Ǥ","Ǧ","Ǩ","Ǫ","Ǭ","Ǯ","Ǳ","Ǵ","Ƕ","Ƿ","Ǹ",
     "Ǻ","Ǽ","Ǿ","U+0200","U+0202","U+0204","U+0206","U+0208","U+020A","U+020C","U+020E","U+0210",
     "U+0212","U+0214","U+0216","U+0218","U+021A","U+021C","U+021E","U+0220","U+0222","U+0224","U+0226","U+0228",
     "U+022A","U+022C","U+022E","U+0230","U+0232","U+023A","U+023B","U+023D","U+023E","U+0241","U+0243","U+0244",
     "U+0245","U+0246","U+0248","U+024A","U+024C","U+024E","U+0370","U+0372","U+0376","U+037F","Ά","Έ",
     "Ή","Ί","Ό","Ύ","Ώ","Α","Β","Γ","Δ","Ε","Ζ","Η",
     "Θ","Ι","Κ","Λ","Μ","Ν","Ξ","Ο","Π","Ρ","Σ","Τ",
     "Υ","Φ","Χ","Ψ","Ω","Ϊ","Ϋ","Ϗ","ϒ","ϓ","ϔ","Ϙ",
     "Ϛ","Ϝ","Ϟ","Ϡ","Ϣ","Ϥ","Ϧ","Ϩ","Ϫ","Ϭ","Ϯ","ϴ",
     "Ϸ","Ϲ","Ϻ","Ͻ","Ͼ","Ͽ","U+0400","U+0401","U+0402","U+0403","U+0404","U+0405",
     "U+0406","U+0407","U+0408","U+0409","U+040A","U+040B","U+040C","U+040D","U+040E","U+040F","U+0410","U+0411",
     "U+0412","U+0413","U+0414","U+0415","U+0416","U+0417","U+0418","U+0419","U+041A","U+041B","U+041C","U+041D",
     "U+041E","U+041F","U+0420","U+0421","U+0422","U+0423","U+0424","U+0425","U+0426","U+0427","U+0428","U+0429",
     "U+042A","U+042B","U+042C","U+042D","U+042E","U+042F","U+0460","U+0462","U+0464","U+0466","U+0468","U+046A",
     "U+046C","U+046E","U+0470","U+0472","U+0474","U+0476","U+0478","U+047A","U+047C","U+047E","Ҁ","Ҋ",
     "Ҍ","Ҏ","Ґ","Ғ","Ҕ","Җ","Ҙ","Қ","Ҝ","Ҟ","Ҡ","Ң",
     "Ҥ","Ҧ","Ҩ","Ҫ","Ҭ","Ү","Ұ","Ҳ","Ҵ","Ҷ","Ҹ","Һ",
     "Ҽ","Ҿ","Ӏ","Ӂ","Ӄ","Ӆ","Ӈ","Ӊ","Ӌ","Ӎ","Ӑ","Ӓ",
     "Ӕ","Ӗ","Ә","Ӛ","Ӝ","Ӟ","Ӡ","Ӣ","Ӥ","Ӧ","Ө","Ӫ",
     "Ӭ","Ӯ","Ӱ","Ӳ","Ӵ","Ӷ","Ӹ","Ӻ","Ӽ","Ӿ","U+0500","U+0502",
     "U+0504","U+0506","U+0508","U+050A","U+050C","U+050E","U+0510","U+0512","U+0514","U+0516","U+0518","U+051A",
     "U+051C","U+051E","U+0520","U+0522","U+0524","U+0526","U+0528","U+052A","U+052C","U+052E","U+0531","U+0532",
     "U+0533","U+0534","U+0535","U+0536","U+0537","U+0538","U+0539","U+053A","U+053B","U+053C","U+053D","U+053E",
     "U+053F","U+0540","U+0541","U+0542","U+0543","U+0544","U+0545","U+0546","U+0547","U+0548","U+0549","U+054A",
     "U+054B","U+054C","U+054D","U+054E","U+054F","U+0550","U+0551","U+0552","U+0553","U+0554","U+0555","U+0556",
     "Ⴀ","Ⴁ","Ⴂ","Ⴃ","Ⴄ","Ⴅ","Ⴆ","Ⴇ","Ⴈ","Ⴉ","Ⴊ","Ⴋ",
     "Ⴌ","Ⴍ","Ⴎ","Ⴏ","Ⴐ","Ⴑ","Ⴒ","Ⴓ","Ⴔ","Ⴕ","Ⴖ","Ⴗ",
     "Ⴘ","Ⴙ","Ⴚ","Ⴛ","Ⴜ","Ⴝ","Ⴞ","Ⴟ","Ⴠ","Ⴡ","Ⴢ","Ⴣ",
     "Ⴤ","Ⴥ","Ⴧ","Ⴭ","Ꭰ","Ꭱ","Ꭲ","Ꭳ","Ꭴ","Ꭵ","Ꭶ","Ꭷ",
     "Ꭸ","Ꭹ","Ꭺ","Ꭻ","Ꭼ","Ꭽ","Ꭾ","Ꭿ","Ꮀ","Ꮁ","Ꮂ","Ꮃ",
     "Ꮄ","Ꮅ","Ꮆ","Ꮇ","Ꮈ","Ꮉ","Ꮊ","Ꮋ","Ꮌ","Ꮍ","Ꮎ","Ꮏ",
     "Ꮐ","Ꮑ","Ꮒ","Ꮓ","Ꮔ","Ꮕ","Ꮖ","Ꮗ","Ꮘ","Ꮙ","Ꮚ","Ꮛ",
     "Ꮜ","Ꮝ","Ꮞ","Ꮟ","Ꮠ","Ꮡ","Ꮢ","Ꮣ","Ꮤ","Ꮥ","Ꮦ","Ꮧ",
     "Ꮨ","Ꮩ","Ꮪ","Ꮫ","Ꮬ","Ꮭ","Ꮮ","Ꮯ","Ꮰ","Ꮱ","Ꮲ","Ꮳ",
     "Ꮴ","Ꮵ","Ꮶ","Ꮷ","Ꮸ","Ꮹ","Ꮺ","Ꮻ","Ꮼ","Ꮽ","Ꮾ","Ꮿ",
     "Ᏸ","Ᏹ","Ᏺ","Ᏻ","Ᏼ","Ᏽ","Ა","Ბ","Გ","Დ","Ე","Ვ",
     "Ზ","Თ","Ი","Კ","Ლ","Მ","Ნ","Ო","Პ","Ჟ","Რ","Ს",
     "Ტ","Უ","Ფ","Ქ","Ღ","Ყ","Შ","Ჩ","Ც","Ძ","Წ","Ჭ",
     "Ხ","Ჯ","Ჰ","Ჱ","Ჲ","Ჳ","Ჴ","Ჵ","Ჶ","Ჷ","Ჸ","Ჹ",
     "Ჺ","Ჽ","Ჾ","Ჿ","U+1E00","U+1E02","U+1E04","U+1E06","U+1E08","U+1E0A","U+1E0C","U+1E0E",
     "U+1E10","U+1E12","U+1E14","U+1E16","U+1E18","U+1E1A","U+1E1C","U+1E1E","U+1E20","U+1E22","U+1E24","U+1E26",
     "U+1E28","U+1E2A","U+1E2C","U+1E2E","U+1E30","U+1E32","U+1E34","U+1E36","U+1E38","U+1E3A","U+1E3C","U+1E3E",
     "U+1E40","U+1E42","U+1E44","U+1E46","U+1E48","U+1E4A","U+1E4C","U+1E4E","U+1E50","U+1E52","U+1E54","U+1E56",
     "U+1E58","U+1E5A","U+1E5C","U+1E5E","U+1E60","U+1E62","U+1E64","U+1E66","U+1E68","U+1E6A","U+1E6C","U+1E6E",
     "U+1E70","U+1E72","U+1E74","U+1E76","U+1E78","U+1E7A","U+1E7C","U+1E7E","Ẁ","Ẃ","Ẅ","Ẇ",
     "Ẉ","Ẋ","Ẍ","Ẏ","Ẑ","Ẓ","Ẕ","ẞ","Ạ","Ả","Ấ","Ầ",
     "Ẩ","Ẫ","Ậ","Ắ","Ằ","Ẳ","Ẵ","Ặ","Ẹ","Ẻ","Ẽ","Ế",
     "Ề","Ể","Ễ","Ệ","Ỉ","Ị","Ọ","Ỏ","Ố","Ồ","Ổ","Ỗ",
     "Ộ","Ớ","Ờ","Ở","Ỡ","Ợ","Ụ","Ủ","Ứ","Ừ","Ử","Ữ",
     "Ự","Ỳ","Ỵ","Ỷ","Ỹ","Ỻ","Ỽ","Ỿ","U+1F08","U+1F09","U+1F0A","U+1F0B",
     "U+1F0C","U+1F0D","U+1F0E","U+1F0F","U+1F18","U+1F19","U+1F1A","U+1F1B","U+1F1C","U+1F1D","U+1F28","U+1F29",
     "U+1F2A","U+1F2B","U+1F2C","U+1F2D","U+1F2E","U+1F2F","U+1F38","U+1F39","U+1F3A","U+1F3B","U+1F3C","U+1F3D",
     "U+1F3E","U+1F3F","U+1F48","U+1F49","U+1F4A","U+1F4B","U+1F4C","U+1F4D","U+1F59","U+1F5B","U+1F5D","U+1F5F",
     "U+1F68","U+1F69","U+1F6A","U+1F6B","U+1F6C","U+1F6D","U+1F6E","U+1F6F","Ᾰ","Ᾱ","Ὰ","Ά",
     "Ὲ","Έ","Ὴ","Ή","Ῐ","Ῑ","Ὶ","Ί","Ῠ","Ῡ","Ὺ","Ύ",
     "Ῥ","Ὸ","Ό","Ὼ","Ώ","U+2102","U+2107","U+210B","U+210C","U+210D","U+2110","U+2111",
     "U+2112","U+2115","U+2119","U+211A","U+211B","U+211C","U+211D","U+2124","U+2126","U+2128","U+212A","U+212B",
     "U+212C","U+212D","U+2130","U+2131","U+2132","U+2133","U+213E","U+213F","U+2145","Ↄ","U+2C00","U+2C01",
     "U+2C02","U+2C03","U+2C04","U+2C05","U+2C06","U+2C07","U+2C08","U+2C09","U+2C0A","U+2C0B","U+2C0C","U+2C0D",
     "U+2C0E","U+2C0F","U+2C10","U+2C11","U+2C12","U+2C13","U+2C14","U+2C15","U+2C16","U+2C17","U+2C18","U+2C19",
     "U+2C1A","U+2C1B","U+2C1C","U+2C1D","U+2C1E","U+2C1F","U+2C20","U+2C21","U+2C22","U+2C23","U+2C24","U+2C25",
     "U+2C26","U+2C27","U+2C28","U+2C29","U+2C2A","U+2C2B","U+2C2C","U+2C2D","U+2C2E","U+2C2F","U+2C60","U+2C62",
     "U+2C63","U+2C64","U+2C67","U+2C69","U+2C6B","U+2C6D","U+2C6E","U+2C6F","U+2C70","U+2C72","U+2C75","U+2C7E",
     "U+2C7F","Ⲁ","Ⲃ","Ⲅ","Ⲇ","Ⲉ","Ⲋ","Ⲍ","Ⲏ","Ⲑ","Ⲓ","Ⲕ",
     "Ⲗ","Ⲙ","Ⲛ","Ⲝ","Ⲟ","Ⲡ","Ⲣ","Ⲥ","Ⲧ","Ⲩ","Ⲫ","Ⲭ",
     "Ⲯ","Ⲱ","Ⲳ","Ⲵ","Ⲷ","Ⲹ","Ⲻ","Ⲽ","Ⲿ","Ⳁ","Ⳃ","Ⳅ",
     "Ⳇ","Ⳉ","Ⳋ","Ⳍ","Ⳏ","Ⳑ","Ⳓ","Ⳕ","Ⳗ","Ⳙ","Ⳛ","Ⳝ",
     "Ⳟ","Ⳡ","Ⳣ","Ⳬ","Ⳮ","Ⳳ","U+A640","U+A642","U+A644","U+A646","U+A648","U+A64A",
     "U+A64C","U+A64E","U+A650","U+A652","U+A654","U+A656","U+A658","U+A65A","U+A65C","U+A65E","U+A660","U+A662",
     "U+A664","U+A666","U+A668","U+A66A","U+A66C","Ꚁ","Ꚃ","Ꚅ","Ꚇ","Ꚉ","Ꚋ","Ꚍ",
     "Ꚏ","Ꚑ","Ꚓ","Ꚕ","Ꚗ","Ꚙ","Ꚛ","U+A722","U+A724","U+A726","U+A728","U+A72A",
     "U+A72C","U+A72E","U+A732","U+A734","U+A736","U+A738","U+A73A","U+A73C","U+A73E","U+A740","U+A742","U+A744",
     "U+A746","U+A748","U+A74A","U+A74C","U+A74E","U+A750","U+A752","U+A754","U+A756","U+A758","U+A75A","U+A75C",
     "U+A75E","U+A760","U+A762","U+A764","U+A766","U+A768","U+A76A","U+A76C","U+A76E","U+A779","U+A77B","U+A77D",
     "U+A77E","Ꞁ","Ꞃ","Ꞅ","Ꞇ","Ꞌ","Ɥ","Ꞑ","Ꞓ","Ꞗ","Ꞙ","Ꞛ",
     "Ꞝ","Ꞟ","Ꞡ","Ꞣ","Ꞥ","Ꞧ","Ꞩ","Ɦ","Ɜ","Ɡ","Ɬ","Ɪ",
     "Ʞ","Ʇ","Ʝ","Ꭓ","Ꞵ","Ꞷ","Ꞹ","Ꞻ","Ꞽ","Ꞿ","Ꟁ","Ꟃ",
     "Ꞔ","Ʂ","Ᶎ","Ꟈ","Ꟊ","Ꟑ","Ꟗ","Ꟙ","Ꟶ","U+FF21","U+FF22","U+FF23",
     "U+FF24","U+FF25","U+FF26","U+FF27","U+FF28","U+FF29","U+FF2A","U+FF2B","U+FF2C","U+FF2D","U+FF2E","U+FF2F",
     "U+FF30","U+FF31","U+FF32","U+FF33","U+FF34","U+FF35","U+FF36","U+FF37","U+FF38","U+FF39","U+FF3A","U+10400",
     "U+10401","U+10402","U+10403","U+10404","U+10405","U+10406","U+10407","U+10408","U+10409","U+1040A","U+1040B","U+1040C",
     "U+1040D","U+1040E","U+1040F","U+10410","U+10411","U+10412","U+10413","U+10414","U+10415","U+10416","U+10417","U+10418",
     "U+10419","U+1041A","U+1041B","U+1041C","U+1041D","U+1041E","U+1041F","U+10420","U+10421","U+10422","U+10423","U+10424",
     "U+10425","U+10426","U+10427","U+104B0","U+104B1","U+104B2","U+104B3","U+104B4","U+104B5","U+104B6","U+104B7","U+104B8",
     "U+104B9","U+104BA","U+104BB","U+104BC","U+104BD","U+104BE","U+104BF","U+104C0","U+104C1","U+104C2","U+104C3","U+104C4",
     "U+104C5","U+104C6","U+104C7","U+104C8","U+104C9","U+104CA","U+104CB","U+104CC","U+104CD","U+104CE","U+104CF","U+104D0",
     "U+104D1","U+104D2","U+104D3","U+10570","U+10571","U+10572","U+10573","U+10574","U+10575","U+10576","U+10577","U+10578",
     "U+10579","U+1057A","U+1057C","U+1057D","U+1057E","U+1057F","U+10580","U+10581","U+10582","U+10583","U+10584","U+10585",
     "U+10586","U+10587","U+10588","U+10589","U+1058A","U+1058C","U+1058D","U+1058E","U+1058F","U+10590","U+10591","U+10592",
     "U+10594","U+10595","U+10C80","U+10C81","U+10C82","U+10C83","U+10C84","U+10C85","U+10C86","U+10C87","U+10C88","U+10C89",
     "U+10C8A","U+10C8B","U+10C8C","U+10C8D","U+10C8E","U+10C8F","U+10C90","U+10C91","U+10C92","U+10C93","U+10C94","U+10C95",
     "U+10C96","U+10C97","U+10C98","U+10C99","U+10C9A","U+10C9B","U+10C9C","U+10C9D","U+10C9E","U+10C9F","U+10CA0","U+10CA1",
     "U+10CA2","U+10CA3","U+10CA4","U+10CA5","U+10CA6","U+10CA7","U+10CA8","U+10CA9","U+10CAA","U+10CAB","U+10CAC","U+10CAD",
     "U+10CAE","U+10CAF","U+10CB0","U+10CB1","U+10CB2","U+118A0","U+118A1","U+118A2","U+118A3","U+118A4","U+118A5","U+118A6",
     "U+118A7","U+118A8","U+118A9","U+118AA","U+118AB","U+118AC","U+118AD","U+118AE","U+118AF","U+118B0","U+118B1","U+118B2",
     "U+118B3","U+118B4","U+118B5","U+118B6","U+118B7","U+118B8","U+118B9","U+118BA","U+118BB","U+118BC","U+118BD","U+118BE",
     "U+118BF","U+16E40","U+16E41","U+16E42","U+16E43","U+16E44","U+16E45","U+16E46","U+16E47","U+16E48","U+16E49","U+16E4A",
     "U+16E4B","U+16E4C","U+16E4D","U+16E4E","U+16E4F","U+16E50","U+16E51","U+16E52","U+16E53","U+16E54","U+16E55","U+16E56",
     "U+16E57","U+16E58","U+16E59","U+16E5A","U+16E5B","U+16E5C","U+16E5D","U+16E5E","U+16E5F","U+1D400","U+1D401","U+1D402",
     "U+1D403","U+1D404","U+1D405","U+1D406","U+1D407","U+1D408","U+1D409","U+1D40A","U+1D40B","U+1D40C","U+1D40D","U+1D40E",
     "U+1D40F","U+1D410","U+1D411","U+1D412","U+1D413","U+1D414","U+1D415","U+1D416","U+1D417","U+1D418","U+1D419","U+1D434",
     "U+1D435","U+1D436","U+1D437","U+1D438","U+1D439","U+1D43A","U+1D43B","U+1D43C","U+1D43D","U+1D43E","U+1D43F","U+1D440",
     "U+1D441","U+1D442","U+1D443","U+1D444","U+1D445","U+1D446","U+1D447","U+1D448","U+1D449","U+1D44A","U+1D44B","U+1D44C",
     "U+1D44D","U+1D468","U+1D469","U+1D46A","U+1D46B","U+1D46C","U+1D46D","U+1D46E","U+1D46F","U+1D470","U+1D471","U+1D472",
     "U+1D473","U+1D474","U+1D475","U+1D476","U+1D477","U+1D478","U+1D479","U+1D47A","U+1D47B","U+1D47C","U+1D47D","U+1D47E",
     "U+1D47F","U+1D480","U+1D481","U+1D49C","U+1D49E","U+1D49F","U+1D4A2","U+1D4A5","U+1D4A6","U+1D4A9","U+1D4AA","U+1D4AB",
     "U+1D4AC","U+1D4AE","U+1D4AF","U+1D4B0","U+1D4B1","U+1D4B2","U+1D4B3","U+1D4B4","U+1D4B5","U+1D4D0","U+1D4D1","U+1D4D2",
     "U+1D4D3","U+1D4D4","U+1D4D5","U+1D4D6","U+1D4D7","U+1D4D8","U+1D4D9","U+1D4DA","U+1D4DB","U+1D4DC","U+1D4DD","U+1D4DE",
     "U+1D4DF","U+1D4E0","U+1D4E1","U+1D4E2","U+1D4E3","U+1D4E4","U+1D4E5","U+1D4E6","U+1D4E7","U+1D4E8","U+1D4E9","U+1D504",
     "U+1D505","U+1D507","U+1D508","U+1D509","U+1D50A","U+1D50D","U+1D50E","U+1D50F","U+1D510","U+1D511","U+1D512","U+1D513",
     "U+1D514","U+1D516","U+1D517","U+1D518","U+1D519","U+1D51A","U+1D51B","U+1D51C","U+1D538","U+1D539","U+1D53B","U+1D53C",
     "U+1D53D","U+1D53E","U+1D540","U+1D541","U+1D542","U+1D543","U+1D544","U+1D546","U+1D54A","U+1D54B","U+1D54C","U+1D54D",
     "U+1D54E","U+1D54F","U+1D550","U+1D56C","U+1D56D","U+1D56E","U+1D56F","U+1D570","U+1D571","U+1D572","U+1D573","U+1D574",
     "U+1D575","U+1D576","U+1D577","U+1D578","U+1D579","U+1D57A","U+1D57B","U+1D57C","U+1D57D","U+1D57E","U+1D57F","U+1D580",
     "U+1D581","U+1D582","U+1D583","U+1D584","U+1D585","U+1D5A0","U+1D5A1","U+1D5A2","U+1D5A3","U+1D5A4","U+1D5A5","U+1D5A6",
     "U+1D5A7","U+1D5A8","U+1D5A9","U+1D5AA","U+1D5AB","U+1D5AC","U+1D5AD","U+1D5AE","U+1D5AF","U+1D5B0","U+1D5B1","U+1D5B2",
     "U+1D5B3","U+1D5B4","U+1D5B5","U+1D5B6","U+1D5B7","U+1D5B8","U+1D5B9","U+1D5D4","U+1D5D5","U+1D5D6","U+1D5D7","U+1D5D8",
     "U+1D5D9","U+1D5DA","U+1D5DB","U+1D5DC","U+1D5DD","U+1D5DE","U+1D5DF","U+1D5E0","U+1D5E1","U+1D5E2","U+1D5E3","U+1D5E4",
     "U+1D5E5","U+1D5E6","U+1D5E7","U+1D5E8","U+1D5E9","U+1D5EA","U+1D5EB","U+1D5EC","U+1D5ED","U+1D608","U+1D609","U+1D60A",
     "U+1D60B","U+1D60C","U+1D60D","U+1D60E","U+1D60F","U+1D610","U+1D611","U+1D612","U+1D613","U+1D614","U+1D615","U+1D616",
     "U+1D617","U+1D618","U+1D619","U+1D61A","U+1D61B","U+1D61C","U+1D61D","U+1D61E","U+1D61F","U+1D620","U+1D621","U+1D63C",
     "U+1D63D","U+1D63E","U+1D63F","U+1D640","U+1D641","U+1D642","U+1D643","U+1D644","U+1D645","U+1D646","U+1D647","U+1D648",
     "U+1D649","U+1D64A","U+1D64B","U+1D64C","U+1D64D","U+1D64E","U+1D64F","U+1D650","U+1D651","U+1D652","U+1D653","U+1D654",
     "U+1D655","U+1D670","U+1D671","U+1D672","U+1D673","U+1D674","U+1D675","U+1D676","U+1D677","U+1D678","U+1D679","U+1D67A",
     "U+1D67B","U+1D67C","U+1D67D","U+1D67E","U+1D67F","U+1D680","U+1D681","U+1D682","U+1D683","U+1D684","U+1D685","U+1D686",
     "U+1D687","U+1D688","U+1D689","U+1D6A8","U+1D6A9","U+1D6AA","U+1D6AB","U+1D6AC","U+1D6AD","U+1D6AE","U+1D6AF","U+1D6B0",
     "U+1D6B1","U+1D6B2","U+1D6B3","U+1D6B4","U+1D6B5","U+1D6B6","U+1D6B7","U+1D6B8","U+1D6B9","U+1D6BA","U+1D6BB","U+1D6BC",
     "U+1D6BD","U+1D6BE","U+1D6BF","U+1D6C0","U+1D6E2","U+1D6E3","U+1D6E4","U+1D6E5","U+1D6E6","U+1D6E7","U+1D6E8","U+1D6E9",
     "U+1D6EA","U+1D6EB","U+1D6EC","U+1D6ED","U+1D6EE","U+1D6EF","U+1D6F0","U+1D6F1","U+1D6F2","U+1D6F3","U+1D6F4","U+1D6F5",
     "U+1D6F6","U+1D6F7","U+1D6F8","U+1D6F9","U+1D6FA","U+1D71C","U+1D71D","U+1D71E","U+1D71F","U+1D720","U+1D721","U+1D722",
     "U+1D723","U+1D724","U+1D725","U+1D726","U+1D727","U+1D728","U+1D729","U+1D72A","U+1D72B","U+1D72C","U+1D72D","U+1D72E",
     "U+1D72F","U+1D730","U+1D731","U+1D732","U+1D733","U+1D734","U+1D756","U+1D757","U+1D758","U+1D759","U+1D75A","U+1D75B",
     "U+1D75C","U+1D75D","U+1D75E","U+1D75F","U+1D760","U+1D761","U+1D762","U+1D763","U+1D764","U+1D765","U+1D766","U+1D767",
     "U+1D768","U+1D769","U+1D76A","U+1D76B","U+1D76C","U+1D76D","U+1D76E","U+1D790","U+1D791","U+1D792","U+1D793","U+1D794",
     "U+1D795","U+1D796","U+1D797","U+1D798","U+1D799","U+1D79A","U+1D79B","U+1D79C","U+1D79D","U+1D79E","U+1D79F","U+1D7A0",
     "U+1D7A1","U+1D7A2","U+1D7A3","U+1D7A4","U+1D7A5","U+1D7A6","U+1D7A7","U+1D7A8","U+1D7CA","U+1E900","U+1E901","U+1E902",
     "U+1E903","U+1E904","U+1E905","U+1E906","U+1E907","U+1E908","U+1E909","U+1E90A","U+1E90B","U+1E90C","U+1E90D","U+1E90E",
     "U+1E90F","U+1E910","U+1E911","U+1E912","U+1E913","U+1E914","U+1E915","U+1E916","U+1E917","U+1E918","U+1E919","U+1E91A",
     "U+1E91B","U+1E91C","U+1E91D","U+1E91E","U+1E91F","U+1E920","U+1E921">>

unicodeToLower == [c \in Range(ToLowerFrom) |-> ToLowerTo[IndexIn(ToLowerFrom, c)]]

unicodeToUpper == [c \in Range(ToUpperFrom) |-> ToUpperTo[IndexIn(ToUpperFrom, c)]]

unicodeUpper == Range(UpperLetterSeq)

\* unicode.IsUpper
IsUpperLetter(c) == c \in unicodeUpper

\* unicode.ToLower
ToLowerChar(c) == IF c \in DOMAIN unicodeToLower THEN unicodeToLower[c] ELSE c

\* unicode.ToUpper
ToUpperChar(c) == IF c \in DOMAIN unicodeToUpper THEN unicodeToUpper[c] ELSE c

ToLower(str) == Map(ToLowerChar, str)

ToUpper(str) == Map(ToUpperChar, str)

ReplaceAll(str, old, new) == [i \in DOMAIN str |-> IF str[i] = old THEN new ELSE str[i]]

-----------------------------------------------------------------------------
(* Case conversion: regexp.ReplaceAllString replaces the leftmost          *)
(* non-overlapping matches, scanning from the left; [a-z]+ is greedy.      *)

RECURSIVE LowerRunEnd(_, _)
LowerRunEnd(str, j) ==
    IF j + 1 <= Len(str) /\ IsLower(str[j + 1]) THEN LowerRunEnd(str, j + 1) ELSE j

\* matchFirstCap = "(.)([A-Z][a-z]+)" replaced by "${1}_${2}", from index i on.
RECURSIVE replaceFirstCap(_, _)
replaceFirstCap(str, i) ==
    IF i > Len(str) THEN <<>>
    ELSE IF /\ i + 2 <= Len(str)
            /\ str[i] # "\n"
            /\ IsUpper(str[i + 1])
            /\ IsLower(str[i + 2])
         THEN LET j == LowerRunEnd(str, i + 2)
              IN  <<str[i], "_">> \o SubSeq(str, i + 1, j) \o replaceFirstCap(str, j + 1)
         ELSE <<str[i]>> \o replaceFirstCap(str, i + 1)

RECURSIVE replaceAllCap(_, _)

\* replaceAllCap with the class [a-z] in place of [a-z0-9].
replaceAllCapLetters(str, i) ==
    IF i > Len(str) THEN <<>>
    ELSE IF /\ i + 1 <= Len(str)
            /\ IsLower(str[i])
            /\ IsUpper(str[i + 1])
         THEN <<str[i], "_", str[i + 1]>> \o replaceAllCap(str, i + 2)
         ELSE <<str[i]>> \o replaceAllCap(str, i + 1)

\* matchAllCap = "([a-z0-9])([A-Z])" replaced by "${1}_${2}", from index i on.
replaceAllCap(str, i) ==
    IF i > Len(str) THEN <<>>
    ELSE IF /\ i + 1 <= Len(str)
            /\ (IsLower(str[i]) \/ IsDigit(str[i]))
            /\ IsUpper(str[i + 1])
         THEN <<str[i], "_", str[i + 1]>> \o replaceAllCap(str, i + 2)
         ELSE <<str[i]>> \o replaceAllCap(str, i + 1)

\* toSnakeCase with the arguments of strings.ReplaceAll swapped.
toSnakeCaseSwapped(str) ==
    LET snake1 == replaceFirstCap(str, 1)
        snake2 == replaceAllCap(snake1, 1)
        snake3 == ReplaceAll(snake2, "_", "-")
    IN  ToLower(snake3)

toSnakeCase(str) ==
    LET snake1 == replaceFirstCap(str, 1)
        snake2 == replaceAllCap(snake1, 1)
        snake3 == ReplaceAll(snake2, "-", "_")
    IN  ToLower(snake3)

\* toSnakeCase as textcase.go has it: hyphens are left alone.
textcaseToSnakeCase(str) ==
    LET snake1 == replaceFirstCap(str, 1)
        snake2 == replaceAllCap(snake1, 1)
    IN  ToLower(snake2)

toKebabCase(str) == ReplaceAll(toSnakeCase(str), "_", "-")

toScreamingSnakeCase(str) == ToUpper(toSnakeCase(str))

-----------------------------------------------------------------------------
(* strconv: each parser returns [ok, val, err], err naming the error the   *)
(* *strconv.NumError returned holds.                                       *)

Sign == {"+", "-"}

Syntax(zero) == [ok |-> FALSE, val |-> zero, err |-> "strconv.ErrSyntax"]

OutOfRange(zero) == [ok |-> FALSE, val |-> zero, err |-> "strconv.ErrRange"]

Parsed(val) == [ok |-> TRUE, val |-> val, err |-> "nil"]

RECURSIVE DigitsValue(_)
DigitsValue(ds) ==
    IF ds = <<>> THEN 0
    ELSE 10 * DigitsValue(SubSeq(ds, 1, Len(ds) - 1)) + (IndexIn(DigitSeq, ds[Len(ds)]) - 1)

AllDigits(ds) == \A i \in DOMAIN ds : IsDigit(ds[i])

RECURSIVE StripLeadingZeros(_)
StripLeadingZeros(ds) ==
    IF ds # <<>> /\ ds[1] = "0" THEN StripLeadingZeros(Tail(ds)) ELSE ds

\* a <= b for two digit strings of one length.
RECURSIVE DigitsLeq(_, _)
DigitsLeq(a, b) ==
    IF a = <<>> THEN TRUE
    ELSE IF a[1] = b[1] THEN DigitsLeq(Tail(a), Tail(b))
    ELSE IndexIn(DigitSeq, a[1]) < IndexIn(DigitSeq, b[1])

\* 1<<63 - 1 and 1<<63: the largest int and the magnitude of the smallest.
MaxInt64Digits ==
    <<"9","2","2","3","3","7","2","0","3","6","8","5","4","7","7","5","8","0","7">>

MinInt64Digits ==
    <<"9","2","2","3","3","7","2","0","3","6","8","5","4","7","7","5","8","0","8">>

\* 1<<64 - 1, the largest uint64.
MaxUint64Digits ==
    <<"1","8","4","4","6","7","4","4","0","7","3","7","0","9","5","5","1","6","1","5">>

\* The digits a literal starts with, up to its first byte that is no digit.
RECURSIVE LeadingDigits(_)
LeadingDigits(body) ==
    IF body # <<>> /\ IsDigit(body[1]) THEN <<body[1]>> \o LeadingDigits(Tail(body))
    ELSE <<>>

\* ParseUint's loop leaves with the range error at the digit that takes the
\* value read so far above 1<<64 - 1, whatever follows that digit.
Overflows(ds) ==
    Len(StripLeadingZeros(ds)) > Len(MaxUint64Digits)
    \/ (/\ Len(StripLeadingZeros(ds)) = Len(MaxUint64Digits)
        /\ ~DigitsLeq(StripLeadingZeros(ds), MaxUint64Digits))

\* The int returned with the range error: the nearest limit, named by its
\* digits.
Int64Limit(neg) ==
    [neg |-> neg, digits |-> IF neg THEN MinInt64Digits ELSE MaxInt64Digits]

\* The magnitude spelled by digits ds fits an int of 64 bits.
InIntRange(neg, ds) ==
    LET sig   == StripLeadingZeros(ds)
        limit == IF neg THEN MinInt64Digits ELSE MaxInt64Digits
    IN  Len(sig) < Len(limit) \/ (Len(sig) = Len(limit) /\ DigitsLeq(sig, limit))

\* Atoi with the sign skipped but not applied.
AtoiSignDropped(str) ==
    LET signed == str # <<>> /\ str[1] \in Sign
        body   == IF signed THEN Tail(str) ELSE str
        neg    == signed /\ str[1] = "-"
    IN  IF body = <<>> THEN Syntax(0)
        ELSE IF Overflows(LeadingDigits(body)) THEN OutOfRange(Int64Limit(neg))
        ELSE IF ~AllDigits(body) THEN Syntax(0)
        ELSE IF ~InIntRange(neg, body) THEN OutOfRange(Int64Limit(neg))
        ELSE Parsed(DigitsValue(body))

\* strconv.Atoi, int being of 64 bits: an optional sign, then one or more
\* decimal digits.  The literal is read from the left: the range error is
\* returned where the digits read pass 1<<64 - 1, the syntax error at a byte
\* that is no digit, and the range error again for digits read to the end
\* whose value no int holds.
Atoi(str) ==
    LET signed == str # <<>> /\ str[1] \in Sign
        body   == IF signed THEN Tail(str) ELSE str
        neg    == signed /\ str[1] = "-"
    IN  IF body = <<>> THEN Syntax(0)
        ELSE IF Overflows(LeadingDigits(body)) THEN OutOfRange(Int64Limit(neg))
        ELSE IF ~AllDigits(body) THEN Syntax(0)
        ELSE IF ~InIntRange(neg, body) THEN OutOfRange(Int64Limit(neg))
        ELSE Parsed(IF neg THEN 0 - DigitsValue(body) ELSE DigitsValue(body))

BoolTrueLits == { <<"1">>, <<"t">>, <<"T">>, <<"T","R","U","E">>,
                  <<"t","r","u","e">>, <<"T","r","u","e">> }

BoolFalseLits == { <<"0">>, <<"f">>, <<"F">>, <<"F","A","L","S","E">>,
                   <<"f","a","l","s","e">>, <<"F","a","l","s","e">> }

\* strconv.ParseBool: exactly the twelve literals above.
ParseBool(str) ==
    IF str \in BoolTrueLits THEN Parsed(TRUE)
    ELSE IF str \in BoolFalseLits THEN Parsed(FALSE)
    ELSE Syntax(FALSE)

-----------------------------------------------------------------------------
(* strconv.ParseFloat.  A finite value is [neg, num, scale], naming the    *)
(* float64 nearest to num / 10^scale, with num not a multiple of ten       *)
(* unless scale is 0, and zero named by num = 0 alone; the others are      *)
(* Inf(neg) and NaN.                                                       *)

Finite(neg, num, scale) == [neg |-> neg, num |-> num, scale |-> scale]

Inf(neg) == [neg |-> neg, special |-> "Inf"]

NaN == [neg |-> FALSE, special |-> "NaN"]

RECURSIVE Pow(_, _)
Pow(b, n) == IF n = 0 THEN 1 ELSE b * Pow(b, n - 1)

\* strconv's lower(c): the ASCII letter in lower case.
AsciiLower(c) == IF IsUpper(c) THEN LowerSeq[IndexIn(UpperSeq, c)] ELSE c

HexDigitSeq == DigitSeq \o <<"a","b","c","d","e","f">>

IsHexDigit(c) == AsciiLower(c) \in Range(HexDigitSeq)

RECURSIVE HexValue(_)
HexValue(ds) ==
    IF ds = <<>> THEN 0
    ELSE 16 * HexValue(SubSeq(ds, 1, Len(ds) - 1))
         + (IndexIn(HexDigitSeq, AsciiLower(ds[Len(ds)])) - 1)

\* The four bits of a hexadecimal digit, and the bits of a string of them.
HexBits(c) ==
    LET n == IndexIn(HexDigitSeq, AsciiLower(c)) - 1
    IN  <<(n \div 8) % 2, (n \div 4) % 2, (n \div 2) % 2, n % 2>>

RECURSIVE Bits(_)
Bits(ds) == IF ds = <<>> THEN <<>> ELSE HexBits(ds[1]) \o Bits(Tail(ds))

RECURSIVE StripLeadingZeroBits(_)
StripLeadingZeroBits(bs) ==
    IF bs # <<>> /\ bs[1] = 0 THEN StripLeadingZeroBits(Tail(bs)) ELSE bs

Without(str, cs) == SelectSeq(str, LAMBDA c : c \notin cs)

\* special: "inf" or "infinity" behind an optional sign, or "nan", in any
\* case of letters.
special(str) ==
    LET signed == str # <<>> /\ str[1] \in Sign
        word   == Map(AsciiLower, IF signed THEN Tail(str) ELSE str)
    IN  IF word \in {<<"i","n","f">>, <<"i","n","f","i","n","i","t","y">>}
        THEN [ok |-> TRUE, val |-> Inf(signed /\ str[1] = "-")]
        ELSE IF ~signed /\ word = <<"n","a","n">> THEN [ok |-> TRUE, val |-> NaN]
        ELSE [ok |-> FALSE, val |-> NaN]

\* The exponent "e = e*10 + digit", no longer counted from 10000 on.
RECURSIVE ExpValue(_, _)
ExpValue(ds, e) ==
    IF ds = <<>> THEN e
    ELSE ExpValue(Tail(ds), IF e < 10000 THEN e * 10 + (IndexIn(DigitSeq, ds[1]) - 1) ELSE e)

\* underscoreOK: an underscore stands between two digits, or between the
\* base prefix and a digit.  t is the literal behind its sign.
underscoreOK(t, hex) ==
    LET IsD(c) == IF hex THEN IsHexDigit(c) ELSE IsDigit(c)
    IN  \A i \in DOMAIN t :
            t[i] = "_" => /\ i > 1 /\ (IsD(t[i - 1]) \/ (hex /\ i = 3))
                          /\ i < Len(t) /\ IsD(t[i + 1])

\* readFloat, for a literal to be read to its end: sign, "0x" for a
\* hexadecimal mantissa, digits with at most one point, and an exponent
\* behind "e" (decimal, optional) or "p" (hexadecimal, required).  It
\* returns [ok, neg, hex, digits, frac, exp]: digits are the mantissa's,
\* frac how many of them follow the point, exp the exponent as spelled.

\* Where the mantissa ends in rest, the literal behind sign and prefix: at
\* the first character that is no digit, underscore or point, or at a
\* second point.
MantissaEnd(rest, hex) ==
    LET stops == {i \in DOMAIN rest :
                     \/ ~(\/ IF hex THEN IsHexDigit(rest[i]) ELSE IsDigit(rest[i])
                          \/ rest[i] \in {"_", "."})
                     \/ (rest[i] = "." /\ \E j \in 1..(i - 1) : rest[j] = ".")}
    IN  IF stops = {} THEN Len(rest) + 1
        ELSE CHOOSE i \in stops : \A j \in stops : i <= j

\* How many digits of the mantissa follow its point.
FracDigits(mant) ==
    LET dots == {i \in DOMAIN mant : mant[i] = "."}
    IN  IF dots = {} THEN 0
        ELSE Len(Without(SubSeq(mant, (CHOOSE i \in dots : TRUE) + 1, Len(mant)), {"_"}))

\* The digits of an exponent, behind its sign: a digit first, then digits
\* and underscores to the end.
readExpDigits(e2, eneg) ==
    IF /\ e2 # <<>> /\ IsDigit(e2[1])
       /\ \A i \in DOMAIN e2 : IsDigit(e2[i]) \/ e2[i] = "_"
    THEN [ok |-> TRUE, exp |-> IF eneg THEN 0 - ExpValue(Without(e2, {"_"}), 0)
                               ELSE ExpValue(Without(e2, {"_"}), 0)]
    ELSE [ok |-> FALSE, exp |-> 0]

\* What follows the mantissa: nothing, for a decimal mantissa alone, or
\* the exponent.
readExponent(after, hex) ==
    IF after # <<>> /\ AsciiLower(after[1]) = (IF hex THEN "p" ELSE "e")
    THEN IF Len(after) > 1 /\ after[2] \in Sign
         THEN readExpDigits(SubSeq(after, 3, Len(after)), after[2] = "-")
         ELSE readExpDigits(Tail(after), FALSE)
    ELSE [ok |-> ~hex /\ after = <<>>, exp |-> 0]

readParts(t, neg, hex, mant, ex) ==
    [ok     |-> /\ \E i \in DOMAIN mant :
                       IF hex THEN IsHexDigit(mant[i]) ELSE IsDigit(mant[i])
                /\ ex.ok
                /\ underscoreOK(t, hex),
     neg    |-> neg,
     hex    |-> hex,
     digits |-> Without(mant, {"_", "."}),
     frac   |-> FracDigits(mant),
     exp    |-> ex.exp]

readMantissa(t, neg, hex, rest, m) ==
    readParts(t, neg, hex, SubSeq(rest, 1, m - 1),
              readExponent(SubSeq(rest, m, Len(rest)), hex))

readPrefixed(t, neg, hex, rest) == readMantissa(t, neg, hex, rest, MantissaEnd(rest, hex))

readUnsigned(t, neg, hex) ==
    readPrefixed(t, neg, hex, IF hex THEN SubSeq(t, 3, Len(t)) ELSE t)

readSigned(t, neg) ==
    readUnsigned(t, neg, Len(t) > 2 /\ t[1] = "0" /\ AsciiLower(t[2]) = "x")

readFloat(str) ==
    readSigned(IF str # <<>> /\ str[1] \in Sign THEN Tail(str) ELSE str,
               str # <<>> /\ str[1] = "-")

\* 1<<1024 - 1<<970, half way between the largest float64 and 1<<1024: a
\* value rounds to a float64 if and only if its magnitude is below it.
OverflowDigits ==
    <<"1","7","9","7","6","9","3","1","3","4","8","6","2","3","1","5","8","0",
      "7","9","3","7","2","8","9","7","1","4","0","5","3","0","3","4","1","5",
      "0","7","9","9","3","4","1","3","2","7","1","0","0","3","7","8","2","6",
      "9","3","6","1","7","3","7","7","8","9","8","0","4","4","4","9","6","8",
      "2","9","2","7","6","4","7","5","0","9","4","6","6","4","9","0","1","7",
      "9","7","7","5","8","7","2","0","7","0","9","6","3","3","0","2","8","6",
      "4","1","6","6","9","2","8","8","7","9","1","0","9","4","6","5","5","5",
      "5","4","7","8","5","1","9","4","0","4","0","2","6","3","0","6","5","7",
      "4","8","8","6","7","1","5","0","5","8","2","0","6","8","1","9","0","8",
      "9","0","2","0","0","0","7","0","8","3","8","3","6","7","6","2","7","3",
      "8","5","4","8","4","5","8","1","7","7","1","1","5","3","1","7","6","4",
      "4","7","5","7","3","0","2","7","0","0","6","9","8","5","5","5","7","1",
      "3","6","6","9","5","9","6","2","2","8","4","2","9","1","4","8","1","9",
      "8","6","0","8","3","4","9","3","6","4","7","5","2","9","2","7","1","9",
      "0","7","4","1","6","8","4","4","4","3","6","5","5","1","0","7","0","4",
      "3","4","2","7","1","1","5","5","9","6","9","9","5","0","8","0","9","3",
      "0","4","2","8","8","0","1","7","7","9","0","4","1","7","4","4","9","7",
      "7","9","2">>

\* The decimal digits times ten to the power x is a magnitude no float64
\* is nearest to.
DecimalOverflows(digits, x) ==
    LET sig    == StripLeadingZeros(digits)
        len    == Len(sig) + x
        padded == [i \in 1..Len(OverflowDigits) |-> IF i <= Len(sig) THEN sig[i] ELSE "0"]
    IN  sig # <<>> /\ (\/ len > Len(OverflowDigits)
                       \/ len = Len(OverflowDigits) /\ DigitsLeq(OverflowDigits, padded))

\* The same for hexadecimal digits times two to the power x: the leading
\* bit is worth 1<<1024 or more, or 1<<1023 with the 53 bits after it set.
HexOverflows(digits, x) ==
    LET bits == StripLeadingZeroBits(Bits(digits))
        top  == Len(bits) - 1 + x
    IN  bits # <<>> /\ (\/ top >= 1024
                        \/ top = 1023 /\ \A i \in 1..54 : i <= Len(bits) /\ bits[i] = 1)

\* 5^1075, the digits of 1 / 1<<1075, half of the smallest float64 above
\* zero: a magnitude rounds to zero if and only if it is not above it.
UnderflowDigits ==
    <<"2","4","7","0","3","2","8","2","2","9","2","0","6","2","3","2","7","2",
      "0","8","8","2","8","4","3","9","6","4","3","4","1","1","0","6","8","6",
      "1","8","2","5","2","9","9","0","1","3","0","7","1","6","2","3","8","2",
      "2","1","2","7","9","2","8","4","1","2","5","0","3","3","7","7","5","3",
      "6","3","5","1","0","4","3","7","5","9","3","2","6","4","9","9","1","8",
      "1","8","0","8","1","7","9","9","6","1","8","9","8","9","8","2","8","2",
      "3","4","7","7","2","2","8","5","8","8","6","5","4","6","3","3","2","8",
      "3","5","5","1","7","7","9","6","9","8","9","8","1","9","9","3","8","7",
      "3","9","8","0","0","5","3","9","0","9","3","9","0","6","3","1","5","0",
      "3","5","6","5","9","5","1","5","5","7","0","2","2","6","3","9","2","2",
      "9","0","8","5","8","3","9","2","4","4","9","1","0","5","1","8","4","4",
      "3","5","9","3","1","8","0","2","8","4","9","9","3","6","5","3","6","1",
      "5","2","5","0","0","3","1","9","3","7","0","4","5","7","6","7","8","2",
      "4","9","2","1","9","3","6","5","6","2","3","6","6","9","8","6","3","6",
      "5","8","4","8","0","7","5","7","0","0","1","5","8","5","7","6","9","2",
      "6","9","9","0","3","7","0","6","3","1","1","9","2","8","2","7","9","5",
      "5","8","5","5","1","3","3","2","9","2","7","8","3","4","3","3","8","4",
      "0","9","3","5","1","9","7","8","0","1","5","5","3","1","2","4","6","5",
      "9","7","2","6","3","5","7","9","5","7","4","6","2","2","7","6","6","4",
      "6","5","2","7","2","8","2","7","2","2","0","0","5","6","3","7","4","0",
      "0","6","4","8","5","4","9","9","9","7","7","0","9","6","5","9","9","4",
      "7","0","4","5","4","0","2","0","8","2","8","1","6","6","2","2","6","2",
      "3","7","8","5","7","3","9","3","4","5","0","7","3","6","3","3","9","0",
      "0","7","9","6","7","7","6","1","9","3","0","5","7","7","5","0","6","7",
      "4","0","1","7","6","3","2","4","6","7","3","6","0","0","9","6","8","9",
      "5","1","3","4","0","5","3","5","5","3","7","4","5","8","5","1","6","6",
      "6","1","1","3","4","2","2","3","7","6","6","6","7","8","6","0","4","1",
      "6","2","1","5","9","6","8","0","4","6","1","9","1","4","4","6","7","2",
      "9","1","8","4","0","3","0","0","5","3","0","0","5","7","5","3","0","8",
      "4","9","0","4","8","7","6","5","3","9","1","7","1","1","3","8","6","5",
      "9","1","6","4","6","2","3","9","5","2","4","9","1","2","6","2","3","6",
      "5","3","8","8","1","8","7","9","6","3","6","2","3","9","3","7","3","2",
      "8","0","4","2","3","8","9","1","0","1","8","6","7","2","3","4","8","4",
      "9","7","6","6","8","2","3","5","0","8","9","8","6","3","3","8","8","5",
      "8","7","9","2","5","6","2","8","3","0","2","7","5","5","9","9","5","6",
      "5","7","5","2","4","4","5","5","5","0","7","2","5","5","1","8","9","3",
      "1","3","6","9","0","8","3","6","2","5","4","7","7","9","1","8","6","9",
      "4","8","6","6","7","9","9","4","9","6","8","3","2","4","0","4","9","7",
      "0","5","8","2","1","0","2","8","5","1","3","1","8","5","4","5","1","3",
      "9","6","2","1","3","8","3","7","7","2","2","8","2","6","1","4","5","4",
      "3","7","6","9","3","4","1","2","5","3","2","0","9","8","5","9","1","3",
      "2","7","6","6","7","2","3","6","3","2","8","1","2","5">>

\* The decimal digits times ten to the power x round to zero.
DecimalUnderflows(digits, x) ==
    LET sig  == StripLeadingZeros(digits)
        n    == IF Len(sig) > Len(UnderflowDigits) THEN Len(sig) ELSE Len(UnderflowDigits)
        a    == [i \in 1..n |-> IF i <= Len(sig) THEN sig[i] ELSE "0"]
        b    == [i \in 1..n |-> IF i <= Len(UnderflowDigits) THEN UnderflowDigits[i] ELSE "0"]
        len  == Len(sig) + x
        tlen == Len(UnderflowDigits) - 1075
    IN  sig # <<>> /\ (len < tlen \/ (len = tlen /\ DigitsLeq(a, b)))

\* The same for hexadecimal digits times two to the power x.
HexUnderflows(digits, x) ==
    LET bits == StripLeadingZeroBits(Bits(digits))
        top  == Len(bits) - 1 + x
    IN  bits # <<>> /\ (\/ top < 0 - 1075
                        \/ top = 0 - 1075 /\ \A i \in 2..Len(bits) : bits[i] = 0)

\* digits * 10^x as num / 10^scale.
RECURSIVE DecimalValue(_, _, _)
DecimalValue(neg, digits, x) ==
    IF StripLeadingZeros(digits) = <<>> THEN Finite(neg, 0, 0)
    ELSE IF x >= 0 THEN Finite(neg, DigitsValue(digits) * Pow(10, x), 0)
    ELSE IF digits[Len(digits)] = "0"
         THEN DecimalValue(neg, SubSeq(digits, 1, Len(digits) - 1), x + 1)
    ELSE Finite(neg, DigitsValue(digits), 0 - x)

\* n * 2^x as num / 10^scale.
RECURSIVE BinaryValue(_, _, _)
BinaryValue(neg, n, x) ==
    IF n = 0 THEN Finite(neg, 0, 0)
    ELSE IF x >= 0 THEN Finite(neg, n * Pow(2, x), 0)
    ELSE IF n % 2 = 0 THEN BinaryValue(neg, n \div 2, x + 1)
    ELSE Finite(neg, n * Pow(5, 0 - x), 0 - x)

\* The float64 of a literal read: ErrRange with an infinity beyond the
\* range, zero below it.
atofValue(neg, hex, digits, x) ==
    IF hex
    THEN IF HexOverflows(digits, x) THEN OutOfRange(Inf(neg))
         ELSE IF HexUnderflows(digits, x) THEN Parsed(Finite(neg, 0, 0))
         ELSE Parsed(BinaryValue(neg, HexValue(digits), x))
    ELSE IF DecimalOverflows(digits, x) THEN OutOfRange(Inf(neg))
         ELSE IF DecimalUnderflows(digits, x) THEN Parsed(Finite(neg, 0, 0))
         ELSE Parsed(DecimalValue(neg, digits, x))

\* atof64, of what special and readFloat return.
atof64(sp, rf) ==
    IF sp.ok THEN Parsed(sp.val)
    ELSE IF ~rf.ok THEN Syntax(Finite(FALSE, 0, 0))
    ELSE atofValue(rf.neg, rf.hex, rf.digits,
                   IF rf.hex THEN rf.exp - 4 * rf.frac ELSE rf.exp - rf.frac)

\* strconv.ParseFloat(str, 64)
ParseFloat(str) == atof64(special(str), readFloat(str))

-----------------------------------------------------------------------------
(* Errors.  wraps names the sentinel errors.Is finds in the chain ("none"  *)
(* when fmt.Errorf wraps nothing); field, vkind and value are what the     *)
(* message is formatted with.                                              *)

NoErr == [wraps |-> "nil", msg |-> "", field |-> <<>>, vkind |-> "", value |-> <<>>]

ErrNilValue ==
    [wraps |-> "ErrNilValue", msg |-> "nil value",
     field |-> <<>>, vkind |-> "", value |-> <<>>]

ErrMustBePtr ==
    [wraps |-> "ErrMustBePtr", msg |-> "argument must be a pointer to a struct",
     field |-> <<>>, vkind |-> "", value |-> <<>>]

ErrInvalidStruct ==
    [wraps |-> "ErrInvalidStruct", msg |-> "provided value was not a struct",
     field |-> <<>>, vkind |-> "", value |-> <<>>]

ErrPrivateField(name) ==
    [wraps |-> "ErrPrivateField", msg |-> "field must be made public",
     field |-> name, vkind |-> "", value |-> <<>>]

ErrNilStructPtr(name) ==
    [wraps |-> "ErrNilStructPtr", msg |-> "nested structs must be non-nil",
     field |-> name, vkind |-> "", value |-> <<>>]

ErrNotSupported(kind) ==
    [wraps |-> "ErrNotSupported", msg |-> "type is not supported yet",
     field |-> <<>>, vkind |-> kind, value |-> <<>>]

\* fmt.Errorf("failed to parse address of field %v", t.Name): wraps nothing.
ErrAddress(name) ==
    [wraps |-> "none", msg |-> "failed to parse address of field",
     field |-> name, vkind |-> "", value |-> <<>>]

\* fmt.Errorf("failed to parse provided value '%v' as an int, err: %w", ...):
\* wraps the *strconv.NumError of the parser, whose Err is err.
ErrParseValue(strValue, err) ==
    [wraps |-> err, msg |-> "failed to parse provided value",
     field |-> <<>>, vkind |-> "", value |-> strValue]

-----------------------------------------------------------------------------
(* reflect.  A type with its value is a descriptor:                        *)
(*   [Kind |-> k, Named |-> b]              a basic kind; Named when the   *)
(*                                          type is a defined type         *)
(*   [Kind |-> "struct", Fields |-> seq]    fields [Name, Tag, Anonymous, V]*)
(*   [Kind |-> "ptr", Elem |-> d, IsNil |-> b]                             *)
(* A reflect.Value is a descriptor extended with At, the address it lives  *)
(* at (absent when the value is not addressable), RO (reached through an   *)
(* unexported field) and, for a pointer, To, the address it points to.     *)
(* Addresses are paths of field indexes from the struct handed in.  Mem is *)
(* the struct handed in, which a pointer whose Elem is marked Back points  *)
(* back to; the value such a pointer dereferences to is marked Entered:    *)
(* it is the struct whose fields the call at the bottom of the stack is    *)
(* parsing.                                                                *)

NilInterface == [Kind |-> "nil"]

Invalid == [Kind |-> "invalid"]

\* go/token.IsExported: the name starts with an upper-case letter of Unicode.
IsExported(name) == name # <<>> /\ IsUpperLetter(name[1])

Lookup(tag, key) ==
    IF key \in DOMAIN tag THEN [val |-> tag[key], ok |-> TRUE]
    ELSE [val |-> <<>>, ok |-> FALSE]

NumField(v) == Len(v.Fields)

TypeField(v, i) ==
    [Name |-> v.Fields[i].Name, Tag |-> v.Fields[i].Tag,
     Anonymous |-> v.Fields[i].Anonymous]

Field(v, i) ==
    LET d  == v.Fields[i].V
        at == Append(v.At, i)
        ro == v.RO \/ ~IsExported(v.Fields[i].Name)
    IN  IF d.Kind = "ptr"
        THEN [Kind |-> "ptr", Elem |-> d.Elem, IsNil |-> d.IsNil,
              At |-> at, RO |-> ro, Mem |-> v.Mem,
              To |-> IF "Back" \in DOMAIN d.Elem THEN <<>> ELSE Append(at, 0)]
        ELSE d @@ [At |-> at, RO |-> ro, Mem |-> v.Mem]

CanAddr(v) == "At" \in DOMAIN v

CanSet(v) == CanAddr(v) /\ ~v.RO

\* Value.Elem of a pointer: the zero Value when the pointer is nil.
Elem(v) ==
    IF v.IsNil THEN Invalid
    ELSE IF v.Elem.Kind = "ptr"
         THEN [Kind |-> "ptr", Elem |-> v.Elem.Elem, IsNil |-> v.Elem.IsNil,
               At |-> v.To, RO |-> v.RO, To |-> Append(v.To, 0), Mem |-> v.Mem]
         ELSE IF "Back" \in DOMAIN v.Elem
         THEN v.Mem @@ [At |-> v.To, RO |-> v.RO, Mem |-> v.Mem, Entered |-> TRUE]
         ELSE v.Elem @@ [At |-> v.To, RO |-> v.RO, Mem |-> v.Mem]

\* Value.Addr().Interface(): a non-nil pointer to v.
Addr(v) ==
    [Kind |-> "ptr", Elem |-> v, IsNil |-> FALSE, To |-> v.At, RO |-> v.RO, Mem |-> v.Mem]

\* iface.(*string), iface.(*int), ...: the pointee is the predeclared type.
IsPtrTo(iface, kind) == iface.Elem.Kind = kind /\ ~iface.Elem.Named

-----------------------------------------------------------------------------
(* cli flags *)

stringFlag(name, value, destination, envVar, usage) ==
    [type |-> "StringFlag", Name |-> name, Value |-> value, EnvVars |-> <<envVar>>,
     Destination |-> destination.To, Usage |-> usage]

boolFlag(name, value, destination, envVar, usage) ==
    [type |-> "BoolFlag", Name |-> name, Value |-> value, EnvVars |-> <<envVar>>,
     Destination |-> destination.To, Usage |-> usage]

intFlag(name, value, destination, envVar, usage) ==
    [type |-> "IntFlag", Name |-> name, Value |-> value, EnvVars |-> <<envVar>>,
     Destination |-> destination.To, Usage |-> usage]

float64Flag(name, value, destination, envVar, usage) ==
    [type |-> "Float64Flag", Name |-> name, Value |-> value, EnvVars |-> <<envVar>>,
     Destination |-> destination.To, Usage |-> usage]

-----------------------------------------------------------------------------
(* The resolver.  A call returns                                           *)
(*   flags, nilFlags  the []cli.Flag returned (nilFlags: it is nil)        *)
(*   err              the error returned, NoErr for nil                    *)
(*   panicked         the call did not return: reflect panicked, or        *)
(*   fatal            the goroutine's stack was used up                    *)
(*   calls            the calls of flagsFromField made, in order, each     *)
(*                    with the field's address and name, the Options opts  *)
(*                    pointed to and how the call ended                    *)

Options(envPrefix, flagPrefix) == [EnvPrefix |-> envPrefix, FlagPrefix |-> flagPrefix]

defaultOpts == Options(<<>>, <<>>)

Return(flags, err) ==
    [flags |-> flags, nilFlags |-> FALSE, err |-> err, panicked |-> FALSE,
     fatal |-> FALSE, calls |-> <<>>]

ReturnNil(err) ==
    [flags |-> <<>>, nilFlags |-> TRUE, err |-> err, panicked |-> FALSE,
     fatal |-> FALSE, calls |-> <<>>]

Panic ==
    [flags |-> <<>>, nilFlags |-> TRUE, err |-> NoErr, panicked |-> TRUE,
     fatal |-> FALSE, calls |-> <<>>]

\* "fatal error: stack overflow": the program is ended, nothing is returned.
\* It ends so when ParseFlagsWithOpts is called on a struct it is already
\* parsing the fields of: the calls that led there follow again, whatever
\* the options, and nothing ends them but the stack.
StackOverflow == [Panic EXCEPT !.fatal = TRUE]

Call(t, v, opts, r) ==
    [at |-> v.At, name |-> t.Name, opts |-> opts, err |-> r.err, panicked |-> r.panicked]

RECURSIVE ParseFlagsWithOpts(_, _)
RECURSIVE flagsFromField(_, _, _)
RECURSIVE fieldLoop(_, _, _, _)

\* name with the field name left in snake_case.
nameSnakeCase(t, opts) ==
    LET tag  == Lookup(t.Tag, "name")
        base == IF tag.ok THEN tag.val ELSE toSnakeCase(t.Name)
    IN  IF opts.FlagPrefix # <<>> THEN opts.FlagPrefix \o base ELSE base

\* The flag's name: the name tag, or the field name in kebab-case, behind
\* the flag prefix.
name(t, opts) ==
    LET tag  == Lookup(t.Tag, "name")
        base == IF tag.ok THEN tag.val ELSE toKebabCase(t.Name)
    IN  IF opts.FlagPrefix # <<>> THEN opts.FlagPrefix \o base ELSE base

\* env with the prefix put before inferred names only.
envTagUnprefixed(t, opts) ==
    LET tag     == Lookup(t.Tag, "env")
        custom  == Lookup(t.Tag, "name")
        envName == IF custom.ok THEN custom.val ELSE t.Name
    IN  IF tag.ok THEN tag.val
        ELSE opts.EnvPrefix \o toScreamingSnakeCase(envName)

\* The environment variable: the env tag, or the name tag or else the field
\* name in SCREAMING_SNAKE_CASE, behind the env prefix.
env(t, opts) ==
    LET tag     == Lookup(t.Tag, "env")
        custom  == Lookup(t.Tag, "name")
        envName == IF custom.ok THEN custom.val ELSE t.Name
        base    == IF tag.ok THEN tag.val ELSE toScreamingSnakeCase(envName)
    IN  IF opts.EnvPrefix # <<>> THEN opts.EnvPrefix \o base ELSE base

\* optsCopy with the prefixes extended for embedded structs too.
optsCopyEmbedded(t, opts) ==
    LET tag        == Lookup(t.Tag, "name")
        prefixName == IF tag.ok THEN tag.val ELSE t.Name
    IN  Options(opts.EnvPrefix \o toScreamingSnakeCase(prefixName) \o <<"_">>,
                opts.FlagPrefix \o toKebabCase(prefixName) \o <<"-">>)

\* The options a nested struct is parsed with.
optsCopy(t, opts) ==
    LET tag        == Lookup(t.Tag, "name")
        prefixName == IF tag.ok THEN tag.val ELSE t.Name
    IN  IF ~t.Anonymous
        THEN Options(opts.EnvPrefix \o toScreamingSnakeCase(prefixName) \o <<"_">>,
                     opts.FlagPrefix \o toKebabCase(prefixName) \o <<"-">>)
        ELSE opts

\* The switch on v.Kind(), with iface = v.Addr().Interface().
\* "switch v.Kind()", with what flagsFromField has worked out before it:
\* n and e the names, strValue and usage the tags, iface v.Addr().Interface().
kindSwitch(t, v, opts, n, e, strValue, usage, iface) ==
    CASE v.Kind = "struct" -> ParseFlagsWithOpts(iface, optsCopy(t, opts))
      [] v.Kind = "string" ->
           IF ~IsPtrTo(iface, "string") THEN ReturnNil(ErrAddress(t.Name))
           ELSE Return(<<stringFlag(n, strValue, iface, e, usage)>>, NoErr)
      [] v.Kind = "int" ->
           IF ~IsPtrTo(iface, "int") THEN ReturnNil(ErrAddress(t.Name))
           ELSE IF strValue = <<>>
                THEN Return(<<intFlag(n, 0, iface, e, usage)>>, NoErr)
           ELSE IF ~Atoi(strValue).ok
                THEN ReturnNil(ErrParseValue(strValue, Atoi(strValue).err))
           ELSE Return(<<intFlag(n, Atoi(strValue).val, iface, e, usage)>>, NoErr)
      [] v.Kind = "float64" ->
           IF ~IsPtrTo(iface, "float64") THEN ReturnNil(ErrAddress(t.Name))
           ELSE IF strValue = <<>>
                THEN Return(<<float64Flag(n, Finite(FALSE, 0, 0), iface, e, usage)>>,
                            NoErr)
           ELSE IF ~ParseFloat(strValue).ok
                THEN ReturnNil(ErrParseValue(strValue, ParseFloat(strValue).err))
           ELSE Return(<<float64Flag(n, ParseFloat(strValue).val, iface, e, usage)>>,
                       NoErr)
      [] v.Kind = "bool" ->
           IF ~IsPtrTo(iface, "bool") THEN ReturnNil(ErrAddress(t.Name))
           ELSE IF Len(strValue) = 0
                THEN Return(<<boolFlag(n, FALSE, iface, e, usage)>>, NoErr)
           ELSE IF ~ParseBool(strValue).ok
                THEN ReturnNil(ErrParseValue(strValue, ParseBool(strValue).err))
           ELSE Return(<<boolFlag(n, ParseBool(strValue).val, iface, e, usage)>>, NoErr)
      [] OTHER -> ReturnNil(ErrNotSupported(v.Kind))

\* flagsFromField from the names on, v being addressable.
flagsFromKind(t, v, opts) ==
    kindSwitch(t, v, opts, name(t, opts), env(t, opts),
               Lookup(t.Tag, "value").val, Lookup(t.Tag, "usage").val, Addr(v))

\* derefPtr with a nil pointer to a struct passed over without a flag.
derefPtrSkipNil(t, v, opts) ==
    IF v.Kind = "ptr" /\ v.Elem.Kind = "struct" /\ v.IsNil
    THEN Return(<<>>, NoErr)
    ELSE LET v2 == IF v.Kind = "ptr" THEN Elem(v) ELSE v
         IN  IF ~CanAddr(v2) THEN Panic ELSE flagsFromKind(t, v2, opts)

\* "Handle pointer to struct case": a nil pointer to a struct is an error,
\* every other pointer is dereferenced; v.Addr() panics on the zero Value a
\* nil pointer dereferences to.
derefPtr(t, v, opts) ==
    IF v.Kind = "ptr" /\ v.Elem.Kind = "struct" /\ v.IsNil
    THEN ReturnNil(ErrNilStructPtr(t.Name))
    ELSE LET v2 == IF v.Kind = "ptr" THEN Elem(v) ELSE v
         IN  IF ~CanAddr(v2) THEN Panic ELSE flagsFromKind(t, v2, opts)

\* flagsFromFieldBody with v.CanSet() asked after the nil pointer check.
flagsFromFieldBodyLateCanSet(t, v, opts) ==
    IF v.Kind = "ptr" /\ v.Elem.Kind = "struct" /\ v.IsNil
    THEN ReturnNil(ErrNilStructPtr(t.Name))
    ELSE IF ~CanSet(v) THEN ReturnNil(ErrPrivateField(t.Name))
    ELSE derefPtr(t, v, opts)

\* One call of flagsFromField, its entry in calls apart.
flagsFromFieldBody(t, v, opts) ==
    IF ~CanSet(v) THEN ReturnNil(ErrPrivateField(t.Name))
    ELSE derefPtr(t, v, opts)

\* r, what a call of flagsFromField returns, with the call entered in calls.
Called(t, v, opts, r) == [r EXCEPT !.calls = <<Call(t, v, opts, r)>> \o r.calls]

flagsFromField(t, v, opts) == Called(t, v, opts, flagsFromFieldBody(t, v, opts))

\* fieldLoop with the new flags put before the ones gathered so far.
fieldLoopPrepend(v, opts, i, acc) ==
    IF i > NumField(v)
    THEN IF acc.err # NoErr THEN [acc EXCEPT !.flags = <<>>, !.nilFlags = TRUE]
         ELSE acc
    ELSE LET r == flagsFromField(TypeField(v, i), Field(v, i), opts)
         IN  IF r.panicked THEN [r EXCEPT !.calls = acc.calls \o r.calls]
             ELSE fieldLoop(v, opts, i + 1,
                     [acc EXCEPT !.flags = r.flags \o acc.flags,
                                 !.err   = IF r.err # NoErr /\ acc.err = NoErr
                                           THEN r.err ELSE acc.err,
                                 !.calls = acc.calls \o r.calls])

\* fieldLoop with the prefixes of a nested struct written through opts, so
\* that the fields after it are parsed with them.
fieldLoopSharedOpts(v, opts, i, acc) ==
    IF i > NumField(v)
    THEN IF acc.err # NoErr THEN [acc EXCEPT !.flags = <<>>, !.nilFlags = TRUE]
         ELSE acc
    ELSE LET t == TypeField(v, i)
             r == flagsFromField(t, Field(v, i), opts)
             d == v.Fields[i].V
             nested == d.Kind = "struct"
                       \/ (d.Kind = "ptr" /\ ~d.IsNil /\ d.Elem.Kind = "struct")
         IN  IF r.panicked THEN [r EXCEPT !.calls = acc.calls \o r.calls]
             ELSE fieldLoop(v, IF nested THEN optsCopy(t, opts) ELSE opts, i + 1,
                     [acc EXCEPT !.flags = acc.flags \o r.flags,
                                 !.err   = IF r.err # NoErr /\ acc.err = NoErr
                                           THEN r.err ELSE acc.err,
                                 !.calls = acc.calls \o r.calls])

\* The rest of the loop's body for field i, r being what flagsFromField
\* returned for it: a panic ends the call, an error is kept if it is the
\* first, and the loop goes on.
fieldLoopNext(v, opts, i, acc, r) ==
    IF r.panicked THEN [r EXCEPT !.calls = acc.calls \o r.calls]
    ELSE fieldLoop(v, opts, i + 1,
            [acc EXCEPT !.flags = acc.flags \o r.flags,
                        !.err   = IF r.err # NoErr /\ acc.err = NoErr
                                  THEN r.err ELSE acc.err,
                        !.calls = acc.calls \o r.calls])

\* The loop "for i := 0; i < v.NumField(); i++" from field i on; acc holds
\* flags, err and the calls made so far.
fieldLoop(v, opts, i, acc) ==
    IF i > NumField(v)
    THEN IF acc.err # NoErr THEN [acc EXCEPT !.flags = <<>>, !.nilFlags = TRUE]
         ELSE acc
    ELSE fieldLoopNext(v, opts, i, acc,
                       flagsFromField(TypeField(v, i), Field(v, i), opts))

ParseFlagsWithOpts(s, opts) ==
    IF s = NilInterface THEN ReturnNil(ErrNilValue)
    ELSE IF s.Kind # "ptr" THEN ReturnNil(ErrMustBePtr)
    ELSE LET v == Elem(s)
         IN  IF v.Kind # "struct" THEN ReturnNil(ErrInvalidStruct)
             ELSE IF "Entered" \in DOMAIN v THEN StackOverflow
             ELSE fieldLoop(v, opts, 1, Return(<<>>, NoErr))

ParseFlags(s) == ParseFlagsWithOpts(s, defaultOpts)

-----------------------------------------------------------------------------
(* Building the arguments of a call *)

Basic(kind) == [Kind |-> kind, Named |-> FALSE]

Defined(kind) == [Kind |-> kind, Named |-> TRUE]

StructOf(fields) == [Kind |-> "struct", Fields |-> fields]

PtrOf(d) == [Kind |-> "ptr", Elem |-> d, IsNil |-> FALSE]

NilPtrOf(d) == [Kind |-> "ptr", Elem |-> d, IsNil |-> TRUE]

StructField(fieldName, tag, anonymous, d) ==
    [Name |-> fieldName, Tag |-> tag, Anonymous |-> anonymous, V |-> d]

NoTag == [k \in {} |-> <<>>]

Tag1(k, v) == [x \in {k} |-> v]

\* The interface value handed to ParseFlags: a pointer holds the address of
\* the root, every other value is passed by copy.
Interface(d) ==
    IF d.Kind = "ptr" THEN d @@ [To |-> <<>>, RO |-> FALSE, Mem |-> d.Elem] ELSE d

-----------------------------------------------------------------------------
(* The arguments the calls are made with *)

MaxSize == 3

HostURL == <<"H","o","s","t","U","R","L">>

DbConf == <<"D","b","C","o","n","f">>

MYAPP == <<"M","Y","A","P","P","_">>

Hyphenated == <<"d","b","-">>

\* Fields without a struct under them, for the structures of family (A).
Leaves ==
    { StructField(<<"A">>, NoTag, FALSE, Basic("string")),
      StructField(<<"B">>, Tag1("value", <<"7">>), FALSE, Basic("int")),
      StructField(<<"a">>, Tag1("name", <<"a">>) @@ Tag1("env", <<"b">>), FALSE,
                  Basic("string")),
      StructField(<<"C","h">>, NoTag, FALSE, Basic("chan")),
      StructField(<<"P">>, NoTag, FALSE, NilPtrOf(Basic("int"))),
      StructField(<<"Q">>, NoTag, FALSE, PtrOf(Basic("int"))),
      StructField(<<"M">>, NoTag, FALSE, NilPtrOf(StructOf(<<>>))) }

\* Fields holding the struct of fields r: by value, behind a pointer,
\* embedded behind a pointer.
Nested(r) ==
    { StructField(DbConf, NoTag, FALSE, StructOf(r)),
      StructField(<<"S","r","v">>, Tag1("name", <<"m","y","D","b">>), FALSE,
                  PtrOf(StructOf(r))),
      StructField(<<"E","2">>, NoTag, TRUE, PtrOf(StructOf(r))) }

FieldNames(r) == {r[i].Name : i \in DOMAIN r}

RECURSIVE RecsOfSize(_)
RECURSIVE FieldsOfSize(_)

\* The structs with n fields in all, nested ones counted, whose fields have
\* distinct names.
RecsOfSize(n) ==
    IF n = 0 THEN {<<>>}
    ELSE UNION { UNION { { <<f>> \o r : r \in {q \in RecsOfSize(n - k) :
                                                    f.Name \notin FieldNames(q)} }
                         : f \in FieldsOfSize(k) }
                 : k \in 1..n }

FieldsOfSize(k) ==
    IF k = 1 THEN Leaves \cup Nested(<<>>)
    ELSE UNION { Nested(r) : r \in RecsOfSize(k - 1) }

\* (A) structure: every struct of at most MaxSize fields.
StructInputs == UNION { {PtrOf(StructOf(r)) : r \in RecsOfSize(n)} : n \in 0..MaxSize }

StructOptions == { Options(MYAPP, Hyphenated) }

NameTags == { NoTag, Tag1("name", <<"p","g","h","o","s","t">>), Tag1("name", <<>>),
              Tag1("name", <<"l","o","g","L","e","v","e","l">>) }

EnvTags == { NoTag, Tag1("env", <<"P","G","H","O","S","T">>), Tag1("env", <<>>) }

ValueTags == { NoTag, Tag1("value", <<>>), Tag1("value", <<"1">>),
               Tag1("value", <<"-","1","2">>), Tag1("value", <<"x">>),
               Tag1("value", <<"t","r","u","e">>), Tag1("value", <<"0",".","5">>),
               Tag1("value", <<"0">>) }

\* Literals for int fields alone: beyond the range of an int, and beyond
\* that of a uint64 with a letter behind the digits.
IntValueTags ==
    { Tag1("value", <<"9","2","2","3","3","7","2","0","3","6","8","5","4","7","7","5","8","0","8">>),
      Tag1("value", <<"9","9","9","9","9","9","9","9","9","9","9","9","9","9","9","9","9","9","9","9","x">>),
      Tag1("value", <<"-","9","9","9","9","9","9","9","9","9","9","9","9","9","9","9","9","9","9","9","9">>) }

\* Literals for float64 fields alone: exponents, a hexadecimal float,
\* underscores, infinities and NaN, a negative zero, and beyond the range.
FloatValueTags ==
    { Tag1("value", <<"1","e","3">>), Tag1("value", <<"1","E","-","2">>),
      Tag1("value", <<"0","x","1","p","-","2">>), Tag1("value", <<"1","_","0">>),
      Tag1("value", <<"1","_","_","0">>), Tag1("value", <<"-","0">>),
      Tag1("value", <<"I","n","f">>), Tag1("value", <<"-","i","n","f","i","n","i","t","y">>),
      Tag1("value", <<"N","a","N">>), Tag1("value", <<"+","n","a","n">>),
      Tag1("value", <<"1","e","9","9","9">>), Tag1("value", <<"0","x","1","p","1","0","2","4">>) }

BasicKinds == {"string", "int", "bool", "float64"}

OtherKinds == {"chan", "int64", "float32", "slice", "map", "interface"}

SubRecord == <<StructField(HostURL, NoTag, FALSE, Basic("string"))>>

\* What a field can hold, for the one-field structs of family (B).
FieldTypes ==
    {Basic(k) : k \in BasicKinds \cup OtherKinds}
    \cup {Defined(k) : k \in BasicKinds}
    \cup {PtrOf(Basic(k)) : k \in BasicKinds}
    \cup {NilPtrOf(Basic(k)) : k \in BasicKinds}
    \cup { StructOf(SubRecord), PtrOf(StructOf(SubRecord)), NilPtrOf(StructOf(SubRecord)),
           PtrOf(PtrOf(StructOf(SubRecord))), NilPtrOf(PtrOf(StructOf(SubRecord))) }

RichFields ==
    \* names and the name and env tags
    { StructField(n, nt @@ et, FALSE, Basic("string")) :
        n \in {HostURL, <<"A">>}, nt \in NameTags, et \in EnvTags }
    \* default values
    \cup { StructField(<<"I">>, vt, FALSE, d) :
             vt \in ValueTags, d \in {Basic(k) : k \in BasicKinds} \cup {PtrOf(Basic("int"))} }
    \cup { StructField(<<"I">>, vt, FALSE, Basic("int")) : vt \in IntValueTags }
    \cup { StructField(<<"F">>, vt, FALSE, Basic("float64")) : vt \in FloatValueTags }
    \* names with letters outside ASCII
    \cup { StructField(n, nt, FALSE, Basic("string")) :
             n \in {<<"É","a">>, <<"A","É">>, <<"é">>, <<"Σ","a">>, <<"A","ÿ">>,
                    <<"U+01C5","a">>},
             nt \in {NoTag, Tag1("name", <<"é","Ω">>)} }
    \cup { StructField(<<"U">>, Tag1("usage", <<"h","e","l","p">>) @@ Tag1("other", <<"z">>),
                       FALSE, Basic("bool")) }
    \* every type, exported and not, with and without an unparsable value
    \cup { StructField(n, vt, FALSE, d) :
             n \in {<<"a","B">>, <<"X">>}, vt \in {NoTag, Tag1("value", <<"x">>)},
             d \in FieldTypes }
    \* nested structs: named, renamed, embedded; by value, by pointer, nil
    \cup { StructField(n, nt, an, d) :
             n \in {DbConf, <<"e","1">>}, nt \in {NoTag, Tag1("name", <<"d","b">>)},
             an \in BOOLEAN,
             d \in {StructOf(SubRecord), PtrOf(StructOf(SubRecord)),
                    NilPtrOf(StructOf(SubRecord))} }

\* (B) one field of every sort, under every sort of options.
RichInputs == { PtrOf(StructOf(<<f>>)) : f \in RichFields }

RichOptions == { Options(<<>>, <<>>), Options(MYAPP, <<>>), Options(<<>>, Hyphenated),
                 Options(<<"l","c">>, <<"p">>) }

\* (C) arguments that are not a pointer to a struct.
TopInputs ==
    { NilInterface, StructOf(<<>>), StructOf(SubRecord), Basic("int"), Basic("map"),
      NilPtrOf(StructOf(SubRecord)), NilPtrOf(Basic("int")), PtrOf(Basic("map")),
      PtrOf(Basic("string")), PtrOf(PtrOf(StructOf(SubRecord))) }

Pending == ReturnNil(NoErr)

Init ==
    /\ \/ input \in {Interface(d) : d \in StructInputs} /\ options \in StructOptions
       \/ input \in {Interface(d) : d \in RichInputs \cup TopInputs} /\ options \in RichOptions
    /\ called = "none"
    /\ result = Pending

CallParseFlags ==
    /\ called = "none"
    /\ called' = "ParseFlags"
    /\ result' = ParseFlags(input)
    /\ UNCHANGED <<input, options>>

CallParseFlagsWithOpts ==
    /\ called = "none"
    /\ called' = "ParseFlagsWithOpts"
    /\ result' = ParseFlagsWithOpts(input, options)
    /\ UNCHANGED <<input, options>>

Next == CallParseFlags \/ CallParseFlagsWithOpts

Spec == Init /\ [][Next]_vars

-----------------------------------------------------------------------------
(* What the specification says of a call, stated on the argument.          *)

Done == called # "none"

\* The options the call made was given.
EffOpts == IF called = "ParseFlags" THEN defaultOpts ELSE options

\* The argument is a non-nil pointer to a struct.
IsStructArg == input.Kind = "ptr" /\ ~input.IsNil /\ input.Elem.Kind = "struct"

Root == input.Elem.Fields

Succeeded == Done /\ ~result.panicked /\ result.err = NoErr

IsNestedField(f) ==
    f.V.Kind = "struct" \/ (f.V.Kind = "ptr" /\ f.V.Elem.Kind = "struct")

IsNilNested(f) == f.V.Kind = "ptr" /\ f.V.Elem.Kind = "struct" /\ f.V.IsNil

SubFields(f) == IF f.V.Kind = "ptr" THEN f.V.Elem.Fields ELSE f.V.Fields

\* Where the field at address at keeps its value: behind the pointer, if it
\* is one.
Slot(f, at) == IF f.V.Kind = "ptr" THEN Append(at, 0) ELSE at

HasTag(f, key) == key \in DOMAIN f.Tag

\* The name a field is known by: its name tag, else its field name.
TagOrFieldName(f) == IF HasTag(f, "name") THEN f.Tag["name"] ELSE f.Name

SpecFlagName(f) == IF HasTag(f, "name") THEN f.Tag["name"] ELSE toKebabCase(f.Name)

SpecEnvName(f) ==
    IF HasTag(f, "env") THEN f.Tag["env"] ELSE toScreamingSnakeCase(TagOrFieldName(f))

\* The options of the fields under nested field f, whose own level has o.
ChildOptions(f, o) ==
    IF f.Anonymous THEN o
    ELSE Options(o.EnvPrefix \o toScreamingSnakeCase(TagOrFieldName(f)) \o <<"_">>,
                 o.FlagPrefix \o toKebabCase(TagOrFieldName(f)) \o <<"-">>)

\* The leaf fields from field i on, depth first in declaration order, each
\* with its storage and the options of its level.
RECURSIVE LeafFields(_, _, _, _)
LeafFields(fields, i, base, o) ==
    IF i > Len(fields) THEN <<>>
    ELSE LET f    == fields[i]
             at   == Append(base, i)
             here == IF ~IsNestedField(f)
                     THEN <<[field |-> f, slot |-> Slot(f, at), o |-> o]>>
                     ELSE IF IsNilNested(f) THEN <<>>
                     ELSE LeafFields(SubFields(f), 1, Slot(f, at), ChildOptions(f, o))
         IN  here \o LeafFields(fields, i + 1, base, o)

Leafs == LeafFields(Root, 1, <<>>, EffOpts)

\* The field whose own address is at.
RECURSIVE FieldAt(_, _)
FieldAt(fields, at) ==
    LET f == fields[at[1]]
    IN  IF Len(at) = 1 THEN f
        ELSE IF f.V.Kind = "ptr" THEN FieldAt(f.V.Elem.Fields, SubSeq(at, 3, Len(at)))
        ELSE FieldAt(f.V.Fields, Tail(at))

\* The field a flag's destination is the storage of.
DestField(fields, dst) ==
    IF dst[Len(dst)] = 0 THEN FieldAt(fields, SubSeq(dst, 1, Len(dst) - 1))
    ELSE FieldAt(fields, dst)

\* The nested fields above the storage dst, outermost first.
RECURSIVE Ancestors(_, _)
Ancestors(fields, dst) ==
    LET f == fields[dst[1]]
    IN  IF ~IsNestedField(f) THEN <<>>
        ELSE <<f>> \o Ancestors(SubFields(f),
                                SubSeq(dst, Len(Slot(f, <<1>>)) + 1, Len(dst)))

RECURSIVE OptionsUnder(_, _)
OptionsUnder(ancestors, o) ==
    IF ancestors = <<>> THEN o
    ELSE OptionsUnder(Tail(ancestors), ChildOptions(Head(ancestors), o))

-----------------------------------------------------------------------------
\* C1: when the call succeeds, the flags returned are one per leaf field of
\* the struct, nested structs' leaf fields counted at every depth: flag i is
\* bound to the storage of the i-th leaf field in depth-first declaration
\* order, so a nested struct's flags stand where the nested field stands.
C1_OneBindingPerLeafInOrder ==
    (Succeeded /\ IsStructArg) =>
        /\ ~result.nilFlags
        /\ Len(result.flags) = Len(Leafs)
        /\ \A i \in DOMAIN Leafs : result.flags[i].Destination = Leafs[i].slot

\* A nested struct's leaf spliced in before the leaf declared after the
\* nested field.
C1_Witness ==
    /\ Succeeded /\ IsStructArg
    /\ Len(Root) = 2
    /\ Len(result.flags) = 2
    /\ Ancestors(Root, result.flags[1].Destination) # <<>>
    /\ Ancestors(Root, result.flags[2].Destination) = <<>>

\* C2: every flag's name is the flag prefix of its level followed by the
\* field's name tag verbatim or, without one, the field name in kebab-case;
\* the env prefix plays no part.
C2_FlagName ==
    (Succeeded /\ IsStructArg) =>
        \A i \in DOMAIN Leafs \cap DOMAIN result.flags :
            result.flags[i].Name = Leafs[i].o.FlagPrefix \o SpecFlagName(Leafs[i].field)

\* Untagged HostURL under an env prefix and no flag prefix is "host-url".
C2_Witness ==
    /\ Succeeded /\ IsStructArg
    /\ EffOpts.EnvPrefix # <<>> /\ EffOpts.FlagPrefix = <<>>
    /\ Len(Root) = 1 /\ Root[1].Name = HostURL /\ Root[1].Tag = NoTag
    /\ result.flags[1].Name = <<"h","o","s","t","-","u","r","l">>

\* C3: every flag's environment variable is the env prefix of its level
\* followed by the env tag or, without one, the SCREAMING_SNAKE_CASE of the
\* name tag or else of the field name; the prefix stands before env tags too.
C3_EnvName ==
    (Succeeded /\ IsStructArg) =>
        \A i \in DOMAIN Leafs \cap DOMAIN result.flags :
            result.flags[i].EnvVars = <<Leafs[i].o.EnvPrefix \o SpecEnvName(Leafs[i].field)>>

\* An env tag under a non-empty env prefix.
C3_Witness ==
    /\ Succeeded /\ IsStructArg
    /\ EffOpts.EnvPrefix = MYAPP
    /\ Len(Root) = 1 /\ HasTag(Root[1], "env") /\ Root[1].Tag["env"] # <<>>
    /\ result.flags[1].EnvVars = <<MYAPP \o Root[1].Tag["env"]>>

\* C4: a flag under nested structs is named with the call's prefixes extended,
\* outermost first, by every named nested field above it: kebab-case of the
\* field's name tag or else field name and "-" for the flag, its
\* SCREAMING_SNAKE_CASE and "_" for the variable; embedded structs add nothing.
C4_NestedPrefix ==
    (Succeeded /\ IsStructArg) =>
        \A i \in DOMAIN result.flags :
            LET dst == result.flags[i].Destination
                f   == DestField(Root, dst)
                o   == OptionsUnder(Ancestors(Root, dst), EffOpts)
            IN  Ancestors(Root, dst) # <<>> =>
                    /\ result.flags[i].Name = o.FlagPrefix \o SpecFlagName(f)
                    /\ result.flags[i].EnvVars = <<o.EnvPrefix \o SpecEnvName(f)>>

\* A flag two nested structs deep, the inner one renamed by its name tag,
\* under non-empty prefixes.
C4_Witness ==
    /\ Succeeded /\ IsStructArg
    /\ EffOpts.FlagPrefix # <<>> /\ EffOpts.EnvPrefix # <<>>
    /\ \E i \in DOMAIN result.flags :
          LET an == Ancestors(Root, result.flags[i].Destination)
          IN  /\ Len(an) = 2
              /\ ~an[1].Anonymous /\ ~an[2].Anonymous
              /\ HasTag(an[2], "name")

-----------------------------------------------------------------------------
\* The calls of flagsFromField that returned an error or panicked.
FailedCalls == {k \in DOMAIN result.calls :
                    result.calls[k].panicked \/ result.calls[k].err # NoErr}

FirstFailedCall == result.calls[CHOOSE k \in FailedCalls : \A j \in FailedCalls : k <= j]

\* C5: if any field fails, at any depth, the call returns an error and no
\* flags, and the error is that of the first failing field in depth-first
\* declaration order.
C5_ErrorOnly ==
    (Done /\ IsStructArg /\ FailedCalls # {}) =>
        /\ ~result.panicked
        /\ result.nilFlags /\ result.flags = <<>>
        /\ ~FirstFailedCall.panicked
        /\ result.err = FirstFailedCall.err

-----------------------------------------------------------------------------
\* The type a leaf field's value is of, behind the pointer if it is one.
LeafType(f) == IF f.V.Kind = "ptr" THEN f.V.Elem ELSE f.V

ValueLit(f) == f.Tag["value"]

FlagType(kind) ==
    CASE kind = "string"  -> "StringFlag"
      [] kind = "int"     -> "IntFlag"
      [] kind = "float64" -> "Float64Flag"
      [] kind = "bool"    -> "BoolFlag"

\* The literals the fields are tagged with that are numbers or booleans,
\* and what they denote.
IntLits ==
    { <<<<"1">>, 1>>, <<<<"-","1","2">>, 0 - 12>>, <<<<"0">>, 0>>, <<<<"7">>, 7>> }

FloatLits ==
    { <<<<"1">>, Finite(FALSE, 1, 0)>>, <<<<"-","1","2">>, Finite(TRUE, 12, 0)>>,
      <<<<"0">>, Finite(FALSE, 0, 0)>>, <<<<"7">>, Finite(FALSE, 7, 0)>>,
      <<<<"0",".","5">>, Finite(FALSE, 5, 1)>>,
      <<<<"1","e","3">>, Finite(FALSE, 1000, 0)>>, <<<<"1","E","-","2">>, Finite(FALSE, 1, 2)>>,
      <<<<"0","x","1","p","-","2">>, Finite(FALSE, 25, 2)>>,
      <<<<"1","_","0">>, Finite(FALSE, 10, 0)>>, <<<<"-","0">>, Finite(TRUE, 0, 0)>>,
      <<<<"I","n","f">>, Inf(FALSE)>>, <<<<"-","i","n","f","i","n","i","t","y">>, Inf(TRUE)>>,
      <<<<"N","a","N">>, NaN>> }

BoolLits ==
    { <<<<"1">>, TRUE>>, <<<<"t","r","u","e">>, TRUE>>, <<<<"0">>, FALSE>> }

Lits(kind) ==
    CASE kind = "int"     -> IntLits
      [] kind = "float64" -> FloatLits
      [] kind = "bool"    -> BoolLits

Parses(kind, lit) == \E p \in Lits(kind) : p[1] = lit

Denotes(kind, lit, val) == \E p \in Lits(kind) : p[1] = lit /\ p[2] = val

\* The error a value tag that does not parse fails with: not spelled as the
\* type's literals are, or out of the type's range.
IsParseError(err, lit) ==
    \E e \in {"strconv.ErrSyntax", "strconv.ErrRange"} : err = ErrParseValue(lit, e)

IsZero(kind, val) ==
    CASE kind = "string"  -> val = <<>>
      [] kind = "int"     -> val = 0
      [] kind = "float64" -> val = Finite(FALSE, 0, 0)
      [] kind = "bool"    -> val = FALSE

\* An exported leaf field of type int, float64 or bool (or a non-nil pointer
\* to one) whose value tag is present.
IsTaggedNumeric(f) ==
    /\ IsExported(f.Name) /\ ~IsNestedField(f)
    /\ LeafType(f).Kind \in {"int", "float64", "bool"} /\ ~LeafType(f).Named
    /\ f.V.Kind = "ptr" => ~f.V.IsNil
    /\ HasTag(f, "value")

\* Every flag is of its field's type, and its default is the zero value
\* without a value tag, the tag verbatim on a string, and what a non-empty
\* tag denotes otherwise.
DefaultsAsTagged ==
    \A i \in DOMAIN Leafs \cap DOMAIN result.flags :
        LET f    == Leafs[i].field
            kind == LeafType(f).Kind
            fl   == result.flags[i]
        IN  /\ fl.type = FlagType(kind)
            /\ ~HasTag(f, "value") => IsZero(kind, fl.Value)
            /\ (HasTag(f, "value") /\ kind = "string") => fl.Value = ValueLit(f)
            /\ (HasTag(f, "value") /\ kind # "string" /\ ValueLit(f) # <<>>)
                   => Denotes(kind, ValueLit(f), fl.Value)

\* C6 as claimed: zero when the value tag is absent, the literal parsed as the
\* field's type when present, and a failed call with the parse error for
\* every present literal that does not parse.
C6_AsClaimed ==
    (Done /\ IsStructArg) =>
        /\ Succeeded => DefaultsAsTagged
        /\ \A k \in DOMAIN result.calls :
              LET f == FieldAt(Root, result.calls[k].at)
              IN  (IsTaggedNumeric(f) /\ ~Parses(LeafType(f).Kind, ValueLit(f)))
                      => IsParseError(result.calls[k].err, ValueLit(f))

\* C6, amended: as claimed, but an empty literal on an int, float64 or bool
\* field is taken as absent: the default is the zero value and the field
\* does not fail.
C6_DefaultValue ==
    (Done /\ IsStructArg) =>
        /\ Succeeded =>
              /\ DefaultsAsTagged
              /\ \A i \in DOMAIN Leafs \cap DOMAIN result.flags :
                    LET f == Leafs[i].field
                    IN  (HasTag(f, "value") /\ ValueLit(f) = <<>>)
                            => IsZero(LeafType(f).Kind, result.flags[i].Value)
        /\ \A k \in DOMAIN result.calls :
              LET f == FieldAt(Root, result.calls[k].at)
              IN  /\ (IsTaggedNumeric(f) /\ ValueLit(f) # <<>>
                         /\ ~Parses(LeafType(f).Kind, ValueLit(f)))
                        => /\ IsParseError(result.calls[k].err, ValueLit(f))
                           /\ ~Succeeded
                  /\ (IsTaggedNumeric(f) /\ ValueLit(f) = <<>>)
                        => result.calls[k].err = NoErr

\* value:"-12" on an int field gives the integer -12.
C6_Witness ==
    /\ Succeeded /\ IsStructArg
    /\ Len(Root) = 1 /\ Root[1].V = Basic("int")
    /\ HasTag(Root[1], "value") /\ Root[1].Tag["value"] = <<"-","1","2">>
    /\ result.flags[1].Value = 0 - 12

-----------------------------------------------------------------------------
\* C7: a call of flagsFromField on an unexported field returns the private
\* field error whatever the field's type and tags, and a call of
\* ParseFlagsWithOpts that reached such a field returns no flags.
C7_PrivateField ==
    (Done /\ IsStructArg) =>
        \A k \in DOMAIN result.calls :
            LET c == result.calls[k]
            IN  ~IsExported(c.name) =>
                    /\ ~c.panicked
                    /\ c.err = ErrPrivateField(c.name)
                    /\ ~Succeeded /\ result.flags = <<>>

\* An unexported nil pointer to a struct, and one to an int with an
\* unparsable value tag, are private field errors like any other.
C7_Witness ==
    /\ Done /\ IsStructArg
    /\ Len(Root) = 1 /\ ~IsExported(Root[1].Name)
    /\ Root[1].V.Kind = "ptr" /\ Root[1].V.IsNil
    /\ HasTag(Root[1], "value")
    /\ result.err = ErrPrivateField(Root[1].Name)

-----------------------------------------------------------------------------
\* A value that is a null reference: the nil interface or a nil pointer.
IsNull(d) == d = NilInterface \/ (d.Kind = "ptr" /\ d.IsNil)

\* C8: a null argument fails with the nil value error, any other argument
\* that is not a pointer with the must-be-pointer error, any other pointer
\* whose referent is not a struct with the invalid struct error, and none of
\* them has a field looked at.
C8_TopLevelValidation ==
    Done =>
        /\ IsNull(input) => result.err = ErrNilValue
        /\ (~IsNull(input) /\ input.Kind # "ptr") => result.err = ErrMustBePtr
        /\ (~IsNull(input) /\ input.Kind = "ptr" /\ input.Elem.Kind # "struct")
               => result.err = ErrInvalidStruct
        /\ ~IsStructArg => (result.calls = <<>> /\ result.flags = <<>>)

-----------------------------------------------------------------------------
\* Some exported nested field, at any depth a call can descend to, holds a
\* nil pointer.
RECURSIVE AnyNilNested(_)
AnyNilNested(fields) ==
    \E i \in DOMAIN fields :
        /\ IsExported(fields[i].Name)
        /\ IsNestedField(fields[i])
        /\ IsNilNested(fields[i]) \/ AnyNilNested(SubFields(fields[i]))

\* C9: a call of flagsFromField on an exported nil pointer to a struct, named
\* or embedded, returns the nil struct pointer error naming the field, and
\* no call on a struct holding one succeeds.
C9_NilNested ==
    (Done /\ IsStructArg) =>
        /\ \A k \in DOMAIN result.calls :
              LET f == FieldAt(Root, result.calls[k].at)
              IN  (IsExported(f.Name) /\ IsNilNested(f)) =>
                      /\ ~result.calls[k].panicked
                      /\ result.calls[k].err = ErrNilStructPtr(f.Name)
        /\ AnyNilNested(Root) => ~Succeeded

\* An embedded nil pointer to a struct is what the call fails with.
C9_Witness ==
    /\ Done /\ IsStructArg
    /\ Len(Root) = 1 /\ Root[1].Anonymous /\ IsExported(Root[1].Name)
    /\ IsNilNested(Root[1])
    /\ result.err = ErrNilStructPtr(Root[1].Name) /\ result.nilFlags

-----------------------------------------------------------------------------
\* C10: a call of flagsFromField on an exported field that is neither a
\* string, int, bool or float64 nor a struct or a pointer to a struct returns
\* the unsupported type error: it neither returns a flag nor fails otherwise.
C10_Unsupported ==
    (Done /\ IsStructArg) =>
        \A k \in DOMAIN result.calls :
            LET f == FieldAt(Root, result.calls[k].at)
            IN  (IsExported(f.Name) /\ ~IsNestedField(f) /\ f.V.Kind \notin BasicKinds) =>
                    /\ ~result.calls[k].panicked
                    /\ result.calls[k].err.wraps = "ErrNotSupported"

-----------------------------------------------------------------------------
\* The sentinel a caller finds each error kind by with errors.Is.
ErrorKinds ==
    {"ErrNilValue", "ErrMustBePtr", "ErrInvalidStruct", "ErrPrivateField",
     "ErrNilStructPtr", "ErrNotSupported", "ErrValueParse"}

\* C11: every error a call returns is of one of the seven error kinds, found
\* in the error value itself; a value that does not parse has a kind of its
\* own among them.
C11_ErrorKinds ==
    (Done /\ ~result.panicked /\ result.err # NoErr) =>
        /\ result.err.wraps \in ErrorKinds
        /\ (result.err.value # <<>>) => result.err.wraps = "ErrValueParse"

-----------------------------------------------------------------------------
\* C12: under a non-empty env prefix, a field with an env tag is bound to
\* the tag as written, and a field without one to the prefix followed by
\* the inferred name.
C12_EnvTagVerbatim ==
    (Succeeded /\ IsStructArg /\ EffOpts.EnvPrefix # <<>>) =>
        \A k \in DOMAIN result.flags :
            LET f == DestField(Root, result.flags[k].Destination)
                o == OptionsUnder(Ancestors(Root, result.flags[k].Destination), EffOpts)
            IN  result.flags[k].EnvVars =
                    IF HasTag(f, "env") THEN <<f.Tag["env"]>>
                    ELSE <<o.EnvPrefix \o SpecEnvName(f)>>

-----------------------------------------------------------------------------
(* The case conversions on their own.  input is the string handed in,      *)
(* called the function applied last and result the strings returned so     *)
(* far, in order.                                                          *)

MaxLen == 3

Alphabet == {"A", "B", "a", "0", "_", "-", "\n", "É", "é"}

RECURSIVE StringsOfLen(_)
StringsOfLen(n) ==
    IF n = 0 THEN {<<>>}
    ELSE {Append(str, c) : str \in StringsOfLen(n - 1), c \in Alphabet}

\* The inputs of Test_toSnakeCase.
TestInputs ==
    { <<>>, <<"a","l","r","e","a","d","y","_","s","n","a","k","e">>, <<"A">>, <<"A","A">>,
      <<"A","a","A","a">>, <<"H","T","T","P","R","e","q","u","e","s","t">>,
      <<"B","a","t","t","e","r","y","L","i","f","e","V","a","l","u","e">>,
      <<"I","d","0","V","a","l","u","e">>, <<"I","D","0","V","a","l","u","e">> }

CaseInputs == TestInputs \cup UNION {StringsOfLen(n) : n \in 0..MaxLen}

CaseInit ==
    /\ input \in CaseInputs
    /\ options = defaultOpts
    /\ called = "none"
    /\ result = <<>>

CallToSnakeCase ==
    /\ called = "none"
    /\ called' = "toSnakeCase"
    /\ result' = <<toSnakeCase(input)>>
    /\ UNCHANGED <<input, options>>

\* toSnakeCase(toSnakeCase(input))
CallToSnakeCaseAgain ==
    /\ called = "toSnakeCase" /\ Len(result) = 1
    /\ result' = Append(result, toSnakeCase(result[1]))
    /\ UNCHANGED <<input, options, called>>

CallTextcaseToSnakeCase ==
    /\ called = "none"
    /\ called' = "textcase.toSnakeCase"
    /\ result' = <<textcaseToSnakeCase(input)>>
    /\ UNCHANGED <<input, options>>

CallTextcaseToSnakeCaseAgain ==
    /\ called = "textcase.toSnakeCase" /\ Len(result) = 1
    /\ result' = Append(result, textcaseToSnakeCase(result[1]))
    /\ UNCHANGED <<input, options, called>>

CallToKebabCase ==
    /\ called = "none"
    /\ called' = "toKebabCase"
    /\ result' = <<toKebabCase(input)>>
    /\ UNCHANGED <<input, options>>

CallToScreamingSnakeCase ==
    /\ called = "none"
    /\ called' = "toScreamingSnakeCase"
    /\ result' = <<toScreamingSnakeCase(input)>>
    /\ UNCHANGED <<input, options>>

CaseNext ==
    \/ CallToSnakeCase
    \/ CallToSnakeCaseAgain
    \/ CallTextcaseToSnakeCase
    \/ CallTextcaseToSnakeCaseAgain
    \/ CallToKebabCase
    \/ CallToScreamingSnakeCase

CaseSpec == CaseInit /\ [][CaseNext]_vars

-----------------------------------------------------------------------------
\* str with an underscore put before every character At(str, i) holds of.
RECURSIVE Underscored(_, _, _)
Underscored(str, At(_, _), i) ==
    IF i > Len(str) THEN <<>>
    ELSE (IF At(str, i) THEN <<"_", str[i]>> ELSE <<str[i]>>) \o Underscored(str, At, i + 1)

AfterLowerOrDigit(str, i) == i > 1 /\ (IsLower(str[i - 1]) \/ IsDigit(str[i - 1]))

BeforeLower(str, i) == i < Len(str) /\ IsLower(str[i + 1])

\* A capital letter (a) after a lower-case letter or digit, or (b) after any
\* character and before a lower-case letter.
SplitsAsClaimed(str, i) ==
    IsUpper(str[i]) /\ (AfterLowerOrDigit(str, i) \/ (i > 1 /\ BeforeLower(str, i)))

\* The same with, in (b), any character but a line feed.
Splits(str, i) ==
    IsUpper(str[i]) /\ (\/ AfterLowerOrDigit(str, i)
                        \/ (i > 1 /\ str[i - 1] # "\n" /\ BeforeLower(str, i)))

\* C13 as stated: toSnakeCase(x) is x with an underscore before every
\* capital letter that follows a lower-case letter or digit, or follows any
\* character and precedes a lower-case letter, in lower case, and nothing
\* else is changed.
C13_AsClaimed ==
    called = "toSnakeCase" =>
        result[1] = ToLower(Underscored(input, SplitsAsClaimed, 1))

\* C13: toSnakeCase(x) is x with an underscore before every capital letter
\* that follows a lower-case letter or digit, or follows any character but
\* a line feed and precedes a lower-case letter, with every hyphen replaced
\* by an underscore, in lower case, and nothing else is changed.
C13_SnakeCase ==
    called = "toSnakeCase" =>
        result[1] = ToLower(ReplaceAll(Underscored(input, Splits, 1), "-", "_"))

\* A hyphen before a capital letter that starts a word, and an acronym ending
\* in a digit.
C13_Witness ==
    /\ called = "toSnakeCase"
    /\ \/ input = <<"-","B","a">> /\ result[1] = <<"_","_","b","a">>
       \/ input = <<"I","D","0","V","a","l","u","e">>
          /\ result[1] = <<"i","d","0","_","v","a","l","u","e">>

-----------------------------------------------------------------------------
\* Lower-case letters, digits and underscores only.
IsSnakeCase(str) ==
    \A i \in DOMAIN str : IsLower(str[i]) \/ IsDigit(str[i]) \/ str[i] = "_"

\* C14: toSnakeCase, in both revisions, returns a string already in
\* snake_case unchanged, and applied to its own result returns that result.
C14_Idempotent ==
    called \in {"toSnakeCase", "textcase.toSnakeCase"} =>
        /\ IsSnakeCase(input) => result[1] = input
        /\ Len(result) = 2 => result[2] = result[1]

\* A string that the first application changes and the second does not.
C14_Witness ==
    /\ called = "toSnakeCase"
    /\ Len(result) = 2
    /\ result[1] # input
    /\ result[2] = result[1]
    /\ \E i \in DOMAIN input : input[i] = "_"

-----------------------------------------------------------------------------
\* The address of the struct a field at address at is declared in.
Level(at) == SubSeq(at, 1, Len(at) - 1)

\* C15: the fields of one struct are all parsed with the same Options, those
\* of the struct handed in with the Options the call was given, and those of
\* a nested struct with the Options of the nested field's own level extended
\* by that field's prefixes alone.
C15_OptionsFrame ==
    (Done /\ IsStructArg) =>
        \A j, k \in DOMAIN result.calls :
            LET cj == result.calls[j]
                ck == result.calls[k]
                fj == FieldAt(Root, cj.at)
            IN  /\ Len(ck.at) = 1 => ck.opts = EffOpts
                /\ Level(cj.at) = Level(ck.at) => cj.opts = ck.opts
                /\ (IsNestedField(fj) /\ Level(ck.at) = Slot(fj, cj.at))
                       => ck.opts = ChildOptions(fj, cj.opts)

\* Two named nested structs side by side, the second with a field of its
\* own, under options with prefixes.
C15_Witness ==
    /\ Done /\ IsStructArg
    /\ EffOpts.EnvPrefix # <<>> /\ EffOpts.FlagPrefix # <<>>
    /\ Len(Root) = 2
    /\ IsNestedField(Root[1]) /\ ~Root[1].Anonymous /\ ~IsNilNested(Root[1])
    /\ IsNestedField(Root[2]) /\ ~Root[2].Anonymous
    /\ \E k \in DOMAIN result.calls :
          /\ Len(result.calls[k].at) > 1
          /\ result.calls[k].at[1] = 2
          /\ result.calls[k].opts = ChildOptions(Root[2], EffOpts)

-----------------------------------------------------------------------------
\* The call on the first failing field in depth-first declaration order: the
\* first failed call that is not the descent into a nested struct in which
\* a field failed.
IsDescent(c) ==
    LET f == FieldAt(Root, c.at)
    IN  IsExported(f.Name) /\ IsNestedField(f) /\ ~IsNilNested(f)

FailingFields == {k \in FailedCalls : ~IsDescent(result.calls[k])}

FirstFailingField == CHOOSE k \in FailingFields : \A j \in FailingFields : k <= j

\* C16: the call on the first failing field is the last call made, and the
\* call ends as that one did, whatever fields are declared after it.
C16_FailFast ==
    (Done /\ IsStructArg /\ FailingFields # {}) =>
        /\ Len(result.calls) = FirstFailingField
        /\ result.panicked = result.calls[FirstFailingField].panicked
        /\ result.err = result.calls[FirstFailingField].err

-----------------------------------------------------------------------------
(* Structs with a pointer back to themselves:                              *)
(*   type Node struct { ...; Next *Node }; n := &Node{}; n.Next = n        *)

\* A pointer of type *Node to the struct handed in, and the nil *Node.
SelfPtr == [Kind |-> "ptr", Elem |-> [Kind |-> "struct", Back |-> TRUE], IsNil |-> FALSE]

NilSelfPtr == [Kind |-> "ptr", Elem |-> [Kind |-> "struct", Back |-> TRUE], IsNil |-> TRUE]

\* The field holding it: named, renamed, embedded, unexported.
BackFields ==
    { StructField(<<"N","e","x","t">>, NoTag, FALSE, p) : p \in {SelfPtr, NilSelfPtr} }
    \cup { StructField(<<"N","e","x","t">>, Tag1("name", <<"u","p">>), FALSE, SelfPtr),
           StructField(<<"N","o","d","e">>, NoTag, TRUE, SelfPtr),
           StructField(<<"n","e","x","t">>, NoTag, FALSE, SelfPtr) }

\* The fields declared next to it: those of Leaves that flagsFromField
\* returns from.
ReturningLeaves == {f \in Leaves : ~(f.V.Kind = "ptr" /\ f.V.IsNil /\ f.V.Elem.Kind # "struct")}

\* The pointer back alone, after and before another field, and inside a
\* nested struct.
CyclicRecs ==
    { <<b>> : b \in BackFields }
    \cup { <<f, b>> : f \in ReturningLeaves, b \in BackFields }
    \cup { <<b, f>> : f \in ReturningLeaves, b \in BackFields }
    \cup UNION { {<<n>> : n \in Nested(<<b>>)} : b \in BackFields }

CyclicInputs == { PtrOf(StructOf(r)) : r \in CyclicRecs }

CyclicInit ==
    /\ input \in {Interface(d) : d \in CyclicInputs}
    /\ options \in RichOptions
    /\ called = "none"
    /\ result = Pending

CyclicSpec == CyclicInit /\ [][Next]_vars

\* C17: every call returns, with flags or with an error, also on a struct
\* that a pointer in it, or in a struct nested in it, leads back to.
C17_Terminates ==
    Done => (~result.panicked /\ ~result.fatal)

====
